---------------------------- MODULE Spec2Model ----------------------------
(***************************************************************************)
(* Knowledge-graph extraction pipeline of luno-backend                     *)
(* (src/knowledge_graph_service.py), run by one background thread per      *)
(* ended conversation (src/firestore_service.py, end_conversation), and    *)
(* the queries over the stored graph (src/graph_query_service.py).         *)
(*                                                                         *)
(* The document store is modelled at the granularity of single Firestore   *)
(* calls: get(), set(), update() and stream() are each one atomic step;    *)
(* firestore.Increment is applied by the server inside update(); every     *)
(* other field of an update() is written as the absolute value the client  *)
(* computed from the snapshot it read earlier.                             *)
(*                                                                         *)
(* Text.  A Python string is a sequence of tokens.  A token is a TLA+      *)
(* string standing for its own text: a single character ("a", "_", " ")    *)
(* or a whole lowercase word that the code treats uniformly ("topic",      *)
(* "learning_pathway").  No token is a prefix of another, so two token     *)
(* sequences are equal exactly when the Python strings are equal, and      *)
(* comparing them token by token with Rank (the order of the tokens'       *)
(* texts) is Python's comparison of the strings.  Concatenation is \o.     *)
(*                                                                         *)
(* Numbers.  Confidences, strengths and weights are in tenths (0.7 is 7).  *)
(* A weight is an exact fraction [num, den] in lowest terms; the floats'   *)
(* rounding is not modelled.  Timestamps are not modelled.                 *)
(***************************************************************************)
EXTENDS Integers, Sequences, FiniteSets, TLC

(***************************************************************************)
(* Text helpers                                                            *)
(***************************************************************************)

\* The order of the tokens' texts under Python's str comparison (code points).
Rank(t) ==
    CASE t = "\t" -> 1
      [] t = " " -> 2
      [] t = "!" -> 3
      [] t = "1" -> 4
      [] t = "A" -> 5
      [] t = "B" -> 6
      [] t = "_" -> 7
      [] t = "a" -> 8
      [] t = "b" -> 9
      [] t = "concept" -> 10
      [] t = "emotional_association" -> 11
      [] t = "interest" -> 12
      [] t = "learning_pathway" -> 13
      [] t = "personality_trait" -> 14
      [] t = "skill" -> 15
      [] t = "temporal_cooccurrence" -> 16
      [] t = "topic" -> 17

\* str.lower() on one token.
LowerTok(t) ==
    CASE t = "A" -> "a"
      [] t = "B" -> "b"
      [] OTHER -> t

\* str.lower()
lower(s) ==
    [i \in 1..Len(s) |-> LowerTok(s[i])]

\* The character class [a-z0-9\s] of the regular expression in _generate_entity_id.
IsAlnumOrSpace(t) ==
    t \in {"a", "b", "1", "topic", " ", "\t"}

\* The characters str.strip() removes.
IsWhitespace(t) ==
    t \in {" ", "\t"}

RECURSIVE lstrip(_)
lstrip(s) ==
    IF s # <<>> /\ IsWhitespace(Head(s)) THEN lstrip(Tail(s)) ELSE s

RECURSIVE rstrip(_)
rstrip(s) ==
    IF s # <<>> /\ IsWhitespace(s[Len(s)]) THEN rstrip(SubSeq(s, 1, Len(s) - 1)) ELSE s

\* str.strip()
strip(s) ==
    rstrip(lstrip(s))

\* Python's s1 < s2 on strings.
RECURSIVE StrLess(_, _)
StrLess(s1, s2) ==
    IF s1 = <<>> THEN s2 # <<>>
    ELSE IF s2 = <<>> THEN FALSE
    ELSE IF Head(s1) = Head(s2) THEN StrLess(Tail(s1), Tail(s2))
    ELSE Rank(Head(s1)) < Rank(Head(s2))

\* sorted([a, b])
sorted2(a, b) ==
    IF StrLess(b, a) THEN <<b, a>> ELSE <<a, b>>

\* A variant of Prefix: the whole list.
Prefix_untruncated(s, n) ==
    s

\* s[:n]
Prefix(s, n) ==
    SubSeq(s, 1, IF Len(s) < n THEN Len(s) ELSE n)

\* A variant of LastN: s[:n], the oldest n items.
LastN_oldest(s, n) ==
    SubSeq(s, 1, IF Len(s) < n THEN Len(s) ELSE n)

\* s[-n:]
LastN(s, n) ==
    IF Len(s) <= n THEN s ELSE SubSeq(s, Len(s) - n + 1, Len(s))

\* entity_type.rstrip('s'): the singular form of the five entity array names.
singular(entity_type) ==
    CASE entity_type = "topics" -> "topic"
      [] entity_type = "skills" -> "skill"
      [] entity_type = "interests" -> "interest"
      [] entity_type = "concepts" -> "concept"
      [] entity_type = "personality_traits" -> "personality_trait"
      [] OTHER -> entity_type

\* _generate_entity_id: lowercase, delete what is not [a-z0-9\s], replace each
\* ' ' by '_', prefix the singular type.
generate_entity_id(name, entity_type) ==
    LET kept == SelectSeq(lower(name), IsAlnumOrSpace)
        normalized == [i \in 1..Len(kept) |-> IF kept[i] = " " THEN "_" ELSE kept[i]]
    IN  <<singular(entity_type), "_">> \o normalized

\* The entities_map key of extract_and_store and _extract_and_store_edges:
\* f"{type}_{name.lower().strip()}"
map_key(type, name) ==
    <<type, "_">> \o strip(lower(name))

(***************************************************************************)
(* Program constants                                                       *)
(***************************************************************************)

\* `confidence < 0.7`, in tenths.
MinConfidence ==
    7

\* recent_obs[-5:]
MaxRecentObservations ==
    5

\* conv_ids[-10:]
MaxConversationIds ==
    10

\* snippets[-3:]
MaxEvidenceSnippets ==
    3

\* evidence[:200]
SnippetLength ==
    200

\* topics[:5], skills[:5], interests[:5] of the summary
TopN ==
    5

(***************************************************************************)
(* Numbers                                                                 *)
(***************************************************************************)

RECURSIVE GCD(_, _)
GCD(a, b) ==
    IF b = 0 THEN a ELSE GCD(b, a % b)

\* The fraction n/d in lowest terms (d > 0, n >= 0).
Frac(n, d) ==
    LET g == GCD(n, d) IN [num |-> n \div g, den |-> d \div g]

\* A confidence (tenths) stored as a weight.
AsWeight(confidence) ==
    Frac(confidence, 1)

max(a, b) ==
    IF a >= b THEN a ELSE b

RECURSIVE SumConfidence(_)
SumConfidence(log) ==
    IF log = <<>> THEN 0 ELSE Head(log).confidence + SumConfidence(Tail(log))

(***************************************************************************)
(* Entity documents: _create_or_update_entity                              *)
(***************************************************************************)

\* A variant of entity_is_skipped: the confidence is not looked at.
entity_is_skipped_by_name_only(entity_data) ==
    entity_data.name = <<>>

\* `if not name` / `confidence < 0.7`: the item is dropped before any store call.
entity_is_skipped(entity_data) ==
    entity_data.name = <<>> \/ entity_data.confidence < MinConfidence

\* The observation snippet appended to recentObservations.
observation_snippet(entity_data, conversation_id) ==
    [conversationId |-> conversation_id,
     snippet |-> Prefix(entity_data.evidence, SnippetLength),
     sentiment |-> "positive"]

\* A variant of merged_strength: the new confidence overwrites the strength.
merged_strength_overwritten(existing_strength, confidence) ==
    confidence

\* "strength": max(existing_data.get("strength", 0), confidence)
merged_strength(existing_strength, confidence) ==
    max(existing_strength, confidence)

\* recent_obs.append(observation_snippet); recent_obs[-5:]
merged_recent_observations(recent_obs, snippet) ==
    LastN(Append(recent_obs, snippet), MaxRecentObservations)

\* The CREATE branch: the document handed to entity_ref.set().
new_entity(entity_id, entity_data, entity_type, conversation_id) ==
    [id |-> entity_id,
     type |-> singular(entity_type),
     name |-> entity_data.name,
     firstConversationId |-> conversation_id,
     lastConversationId |-> conversation_id,
     mentionCount |-> 1,
     conversationCount |-> 1,
     strength |-> entity_data.confidence,
     edgeStats |-> [totalEdges |-> 0, incomingEdges |-> 0, outgoingEdges |-> 0,
                    temporalCooccurrence |-> 0, learningPathway |-> 0,
                    emotionalAssociation |-> 0],
     recentObservations |-> <<observation_snippet(entity_data, conversation_id)>>]

\* The UPDATE branch: entity_ref.update(update_data) applied by the server to the
\* current document `doc`; update_data was computed from the snapshot
\* `existing_data`.  mentionCount and conversationCount are firestore.Increment,
\* the other fields are absolute values.
updated_entity(doc, existing_data, entity_data, conversation_id) ==
    [doc EXCEPT
        !.lastConversationId = conversation_id,
        !.mentionCount = @ + 1,
        !.strength = merged_strength(existing_data.strength, entity_data.confidence),
        !.conversationCount =
            IF conversation_id # existing_data.lastConversationId THEN @ + 1 ELSE @,
        !.recentObservations =
            merged_recent_observations(existing_data.recentObservations,
                observation_snippet(entity_data, conversation_id))]

(***************************************************************************)
(* Edge documents: _create_or_update_edge, _update_entity_edge_stats       *)
(***************************************************************************)

\* `rel.get('confidence', 0) < 0.7`
relationship_is_skipped(rel) ==
    rel.confidence < MinConfidence

\* Edge ID: sorted endpoint IDs for temporal_cooccurrence, source then target
\* for the other types; the parts are joined with "_".
edge_id_of(edge_type, source_id, target_id) ==
    IF edge_type = "temporal_cooccurrence"
    THEN LET ids_sorted == sorted2(source_id, target_id)
         IN  <<edge_type, "_">> \o ids_sorted[1] \o <<"_">> \o ids_sorted[2]
    ELSE <<edge_type, "_">> \o source_id \o <<"_">> \o target_id

\* A variant of new_weight: the mean of the old weight and the new confidence,
\* whatever the number of observations.
new_weight_halved(current_weight, obs_count, confidence) ==
    Frac(current_weight.num + confidence * current_weight.den, current_weight.den * 2)

\* new_weight = (current_weight * obs_count + confidence) / (obs_count + 1)
new_weight(current_weight, obs_count, confidence) ==
    Frac(current_weight.num * obs_count + confidence * current_weight.den,
         current_weight.den * (obs_count + 1))

\* if conversation_id not in conv_ids: conv_ids.append(...); conv_ids[-10:]
merged_conversation_ids(conv_ids, conversation_id) ==
    LastN(IF \E k \in 1..Len(conv_ids) : conv_ids[k] = conversation_id
          THEN conv_ids
          ELSE Append(conv_ids, conversation_id),
          MaxConversationIds)

evidence_snippet(rel, conversation_id) ==
    [conversationId |-> conversation_id,
     snippet |-> Prefix(rel.evidence, SnippetLength)]

\* snippets.append(...); snippets[-3:]
merged_evidence_snippets(snippets, snippet) ==
    LastN(Append(snippets, snippet), MaxEvidenceSnippets)

\* The CREATE branch: the document handed to edge_ref.set().
new_edge(edge_id, source_id, target_id, rel, conversation_id) ==
    [id |-> edge_id,
     edgeType |-> rel.relationType,
     sourceEntityId |-> source_id,
     sourceEntityType |-> rel.sourceType,
     sourceEntityName |-> rel.sourceEntity,
     targetEntityId |-> target_id,
     targetEntityType |-> rel.targetType,
     targetEntityName |-> rel.targetEntity,
     weight |-> AsWeight(rel.confidence),
     confidence |-> rel.confidence,
     observationCount |-> 1,
     conversationIds |-> <<conversation_id>>,
     attributes |-> rel.attributes,
     evidenceSnippets |-> <<evidence_snippet(rel, conversation_id)>>,
     status |-> "active"]

\* The UPDATE branch: edge_ref.update(update_data) applied to the current document
\* `doc`; update_data was computed from the snapshot `existing_data`.
\* observationCount is firestore.Increment, the other fields are absolute.
updated_edge(doc, existing_data, rel, conversation_id) ==
    [doc EXCEPT
        !.weight = new_weight(existing_data.weight, existing_data.observationCount,
                              rel.confidence),
        !.observationCount = @ + 1,
        !.conversationIds =
            merged_conversation_ids(existing_data.conversationIds, conversation_id),
        !.evidenceSnippets =
            merged_evidence_snippets(existing_data.evidenceSnippets,
                evidence_snippet(rel, conversation_id))]

\* edge_type.replace('_', '') with its first character lowercased.
edge_type_field(edge_type) ==
    CASE edge_type = "temporal_cooccurrence" -> "temporalcooccurrence"
      [] edge_type = "learning_pathway" -> "learningpathway"
      [] edge_type = "emotional_association" -> "emotionalassociation"

\* firestore.Increment(1) on one field of the edgeStats map: a missing field
\* starts at 0.
increment(stats, field_name) ==
    IF field_name \in DOMAIN stats
    THEN [stats EXCEPT ![field_name] = @ + 1]
    ELSE stats @@ (field_name :> 1)

\* The update of one endpoint's edgeStats; `direction` is "outgoingEdges" for the
\* source and "incomingEdges" for the target of a directed edge.
updated_edge_stats(stats, edge_type, direction) ==
    LET total == increment(stats, "totalEdges")
        directed == IF edge_type = "temporal_cooccurrence"
                    THEN total
                    ELSE increment(total, direction)
    IN  increment(directed, edge_type_field(edge_type))

(***************************************************************************)
(* Observation and summary documents                                       *)
(***************************************************************************)

\* One entry of the observation's "entities" list.
observed_entity(entity_data) ==
    [entityId |-> generate_entity_id(entity_data.name, entity_data.etype),
     entityType |-> singular(entity_data.etype),
     entityName |-> entity_data.name,
     observationType |-> "mentioned",
     confidence |-> entity_data.confidence,
     evidenceSnippet |-> Prefix(entity_data.evidence, SnippetLength)]

is_observed(entity_data) ==
    entity_data.name # <<>> /\ entity_data.confidence >= MinConfidence

\* timestamp_value.strftime("%Y%m%d_%H%M%S"): the time to the second.
strftime(timestamp_value) ==
    timestamp_value

\* observation_id = f"obs_{conversation_id}_{timestamp_str}"
observation_id(conversation_id, timestamp_value) ==
    <<"obs", conversation_id, strftime(timestamp_value)>>

\* _create_observation: the items are walked in the order of the five arrays.
observation_doc(conversation_id, timestamp_value, items) ==
    LET seen == SelectSeq(items, is_observed)
    IN  [id |-> observation_id(conversation_id, timestamp_value),
         conversationId |-> conversation_id,
         timestamp |-> timestamp_value,
         entities |-> [k \in 1..Len(seen) |-> observed_entity(seen[k])],
         messageCount |-> Len(SelectSeq(items, LAMBDA it : it.etype = "topics")),
         extractionVersion |-> "v1.0"]

\* entities_ref.stream(): the documents in the order of their IDs.
stream(collection) ==
    LET ids == DOMAIN collection
        pos(x) == 1 + Cardinality({y \in ids : StrLess(y, x)})
    IN  [p \in 1..Cardinality(ids) |-> collection[CHOOSE x \in ids : pos(x) = p]]

\* list.sort(key=...): stable, ascending in the integer key keys[k] of docs[k].
stable_sort(docs, keys) ==
    LET n == Len(docs)
        pos(k) == 1 + Cardinality({j \in 1..n :
                        keys[j] < keys[k] \/ (keys[j] = keys[k] /\ j < k)})
    IN  [p \in 1..n |-> docs[CHOOSE k \in 1..n : pos(k) = p]]

\* The rank of a name among the names of `docs` under Python's string order.
name_rank(docs, k) ==
    Cardinality({n \in {docs[j].name : j \in 1..Len(docs)} : StrLess(n, docs[k].name)})

\* _update_summary: the document written from the streamed entity list.
summary_doc(streamed) ==
    LET of_type(t) == SelectSeq(streamed, LAMBDA e : e.type = t)
        topics == of_type("topic")
        skills == of_type("skill")
        interests == of_type("interest")
        by_count == stable_sort(topics, [k \in 1..Len(topics) |-> 0 - topics[k].mentionCount])
        by_name == stable_sort(skills, [k \in 1..Len(skills) |-> name_rank(skills, k)])
        by_strength == stable_sort(interests,
                           [k \in 1..Len(interests) |-> 0 - interests[k].strength])
    IN  [stats |-> [totalEntities |-> Len(streamed),
                    topicsCount |-> Len(topics),
                    skillsCount |-> Len(skills),
                    interestsCount |-> Len(interests),
                    conceptsCount |-> Len(of_type("concept")),
                    traitsCount |-> Len(of_type("personality_trait"))],
         topTopics |-> [k \in 1..Len(Prefix(by_count, TopN)) |->
                           [id |-> by_count[k].id, name |-> by_count[k].name,
                            count |-> by_count[k].mentionCount]],
         topSkills |-> [k \in 1..Len(Prefix(by_name, TopN)) |->
                           [id |-> by_name[k].id, name |-> by_name[k].name]],
         topInterests |-> [k \in 1..Len(Prefix(by_strength, TopN)) |->
                           [id |-> by_strength[k].id, name |-> by_strength[k].name,
                            strength |-> by_strength[k].strength]]]

(***************************************************************************)
(* Bounds and inputs                                                       *)
(***************************************************************************)

\* Extraction threads that may be in flight at once.
NumThreads ==
    2

\* Conversations ended in a behaviour of Spec (threads interleave freely).
MaxConversations ==
    3

\* Conversations ended in a behaviour of SpecSeq (one extraction at a time).
MaxConversationsSeq ==
    4

\* Conversations ended in a behaviour of SpecDeep (one extraction at a time,
\* enough of them to overflow every bounded list).
MaxConversationsDeep ==
    11

Threads ==
    1..NumThreads

NameA ==
    <<"a">>

NameB ==
    <<"b">>

\* The name "a topic a".
NameATopicA ==
    <<"a", " ", "topic", " ", "a">>

\* One element of one of the five entity arrays of the LLM's JSON.
Item(etype, name, confidence, evidence) ==
    [etype |-> etype, name |-> name, confidence |-> confidence, evidence |-> evidence]

\* One element of the "relationships" array of the LLM's JSON.
Rel(source, target, relation_type, confidence, prerequisite) ==
    [sourceType |-> "topic", sourceEntity |-> source,
     targetType |-> "topic", targetEntity |-> target,
     relationType |-> relation_type, confidence |-> confidence,
     evidence |-> <<"!">>, attributes |-> [prerequisite |-> prerequisite]]

Extracted(items, relationships) ==
    [items |-> items, relationships |-> relationships]

\* Both entities and their co-occurrence, all above the floor.
OutAB ==
    Extracted(<<Item("topics", NameA, 9, <<"A">>), Item("topics", NameB, 7, <<"B">>)>>,
              <<Rel(NameA, NameB, "temporal_cooccurrence", 8, FALSE)>>)

\* The same entities with other confidences, the co-occurrence the other way round.
OutBA ==
    Extracted(<<Item("topics", NameA, 7, <<"a">>), Item("topics", NameB, 9, <<"b">>)>>,
              <<Rel(NameB, NameA, "temporal_cooccurrence", 10, FALSE)>>)

\* An entity and a relationship below the floor, and a relationship above the
\* floor that names the entity below it.
OutLow ==
    Extracted(<<Item("topics", NameB, 9, <<"b">>), Item("topics", NameA, 5, <<"a">>)>>,
              <<Rel(NameB, NameA, "temporal_cooccurrence", 10, FALSE),
                Rel(NameB, NameA, "learning_pathway", 5, TRUE)>>)

\* Directed relationships in both directions.
OutDirected ==
    Extracted(<<Item("topics", NameA, 7, <<"a">>), Item("topics", NameB, 8, <<"b">>)>>,
              <<Rel(NameA, NameB, "learning_pathway", 7, TRUE),
                Rel(NameB, NameA, "learning_pathway", 9, FALSE),
                Rel(NameB, NameA, "emotional_association", 8, FALSE)>>)

\* Directed relationships in both directions between "a" and "a topic a".
OutNested ==
    Extracted(<<Item("topics", NameA, 8, <<"a">>), Item("topics", NameATopicA, 8, <<"b">>)>>,
              <<Rel(NameA, NameATopicA, "learning_pathway", 8, FALSE),
                Rel(NameATopicA, NameA, "learning_pathway", 9, FALSE)>>)

\* A relationship that names "a", which the entity arrays do not list, before
\* one between the two listed entities.
OutUnlisted ==
    Extracted(<<Item("topics", NameB, 8, <<"b">>), Item("topics", NameATopicA, 8, <<"a">>)>>,
              <<Rel(NameB, NameA, "learning_pathway", 9, FALSE),
                Rel(NameB, NameATopicA, "temporal_cooccurrence", 8, FALSE)>>)

Outputs ==
    {OutAB, OutLow}

OutputsSeq ==
    {OutAB, OutBA, OutLow, OutDirected, OutNested, OutUnlisted}

\* The entities of OutAB, with a repeated mention and a relationship below the
\* floor.
OutDeep ==
    Extracted(<<Item("topics", NameA, 9, <<"A">>), Item("topics", NameB, 7, <<"B">>),
                Item("topics", NameB, 5, <<"b">>)>>,
              <<Rel(NameA, NameB, "temporal_cooccurrence", 8, FALSE),
                Rel(NameA, NameB, "learning_pathway", 5, TRUE)>>)

OutputsDeep ==
    {OutDeep}

(***************************************************************************)
(* State                                                                   *)
(***************************************************************************)

VARIABLES
    entities,       \* collection "entities" of the child: entity ID -> document
    edges,          \* collection "edges": edge ID -> document
    observations,   \* collection "observations": observation ID -> document
    summary,        \* document knowledgeGraph/summary (<<>> before the first write)
    conversations,  \* number of extraction runs started so far; conversation
                    \* IDs are drawn from it
    pc,             \* per thread: where extract_and_store stands
    conversation,   \* per thread: conversation_id
    extracted,      \* per thread: extracted_data
    ei,             \* per thread: index of the entity item being handled
    ri,             \* per thread: index of the relationship being handled
    entities_map,   \* per thread: entities_map
    snapshot,       \* per thread: the document snapshot read last
    entity_log,     \* history: entity ID -> the set()/update() calls that merged
                    \* an item into the document, in the order they were applied
    edge_log,       \* history: edge ID -> the same for relationships
    request,        \* the call of a pure function or of the graph query service
                    \* that is being served: its name and arguments
    response,       \* what that call returned
    reads,          \* history: the entity IDs whose edges the call fetched from
                    \* the store, in the order of the fetches
    now,            \* the clock (time.time(), datetime.utcnow()), in seconds
    ACTIVE_CONVERSATIONS,   \* SessionManager.ACTIVE_CONVERSATIONS
    conversation_docs,      \* collection "conversations" of the user
    session_pc,     \* per caller of the session manager: where it stands
    session_local,  \* per caller: its local variables
    threads_started \* the threading.Thread(...).start() calls made so far

stores ==
    <<entities, edges, observations, summary>>

locals ==
    <<pc, conversation, extracted, ei, ri, entities_map, snapshot>>

logs ==
    <<entity_log, edge_log>>

calls ==
    <<request, response, reads>>

sessions ==
    <<ACTIVE_CONVERSATIONS, conversation_docs, session_pc, session_local, threads_started>>

vars ==
    <<entities, edges, observations, summary, conversations, pc, conversation,
      extracted, ei, ri, entities_map, snapshot, entity_log, edge_log, request,
      response, reads, now, ACTIVE_CONVERSATIONS, conversation_docs, session_pc,
      session_local, threads_started>>

NoSnapshot ==
    [exists |-> FALSE, data |-> <<>>]

NoData ==
    Extracted(<<>>, <<>>)

\* No call is being served.
NoRequest ==
    [op |-> "none"]

\* The call has not returned.
NoResponse ==
    [returned |-> FALSE]

\* The call returned `value`.
Returned(value) ==
    [returned |-> TRUE, value |-> value]

\* doc_ref.get()
get(collection, id) ==
    IF id \in DOMAIN collection
    THEN [exists |-> TRUE, data |-> collection[id]]
    ELSE NoSnapshot

\* doc_ref.set(doc)
set(collection, id, doc) ==
    (id :> doc) @@ collection

\* The callers of the session manager: the explicit end request, a request
\* that goes through get_or_create_session, the background cleanup thread.
Callers ==
    {"explicit", "get_or_create", "cleanup"}

\* A caller that holds no local variable.
NoLocal ==
    [session_id |-> 0, session_data |-> <<>>, conv_data |-> <<>>, expired_sessions |-> <<>>]

\* No session, no conversation document, no caller at work.
NoSessions ==
    /\ ACTIVE_CONVERSATIONS = <<>>
    /\ conversation_docs = <<>>
    /\ session_pc = [k \in Callers |-> "idle"]
    /\ session_local = [k \in Callers |-> NoLocal]
    /\ threads_started = <<>>

log_of(log, id) ==
    IF id \in DOMAIN log THEN log[id] ELSE <<>>

logged(log, id, entry) ==
    (id :> Append(log_of(log, id), entry)) @@ log

Init ==
    /\ entities = <<>>
    /\ edges = <<>>
    /\ observations = <<>>
    /\ summary = <<>>
    /\ conversations = 0
    /\ pc = [r \in Threads |-> "idle"]
    /\ conversation = [r \in Threads |-> 0]
    /\ extracted = [r \in Threads |-> NoData]
    /\ ei = [r \in Threads |-> 0]
    /\ ri = [r \in Threads |-> 0]
    /\ entities_map = [r \in Threads |-> <<>>]
    /\ snapshot = [r \in Threads |-> NoSnapshot]
    /\ entity_log = <<>>
    /\ edge_log = <<>>
    /\ request = NoRequest
    /\ response = NoResponse
    /\ reads = <<>>
    /\ now = 0
    /\ NoSessions

(***************************************************************************)
(* extract_and_store, one store call per step                              *)
(***************************************************************************)

entity_data(r) ==
    extracted[r].items[ei[r]]

entity_id(r) ==
    generate_entity_id(entity_data(r).name, entity_data(r).etype)

rel(r) ==
    extracted[r].relationships[ri[r]]

source_key(r) ==
    map_key(rel(r).sourceType, rel(r).sourceEntity)

target_key(r) ==
    map_key(rel(r).targetType, rel(r).targetEntity)

\* `if not source_id or not target_id`
is_resolved(r) ==
    source_key(r) \in DOMAIN entities_map[r] /\ target_key(r) \in DOMAIN entities_map[r]

source_id(r) ==
    entities_map[r][source_key(r)]

target_id(r) ==
    entities_map[r][target_key(r)]

edge_id(r) ==
    edge_id_of(rel(r).relationType, source_id(r), target_id(r))

\* Where the thread stands before relationship j.
pc_at_relationship(data, j) ==
    IF j <= Len(data.relationships) THEN "edge" ELSE "observation"

\* Where the thread stands before entity item i.
pc_at_entity(data, i) ==
    IF i <= Len(data.items) THEN "entity" ELSE pc_at_relationship(data, 1)

\* entities_map[key] = entity_id, for every item that has a name.
recorded(map, item) ==
    IF item.name # <<>>
    THEN (map_key(singular(item.etype), item.name)
            :> generate_entity_id(item.name, item.etype)) @@ map
    ELSE map

\* A conversation ends, its extraction thread reads the child document and gets
\* the LLM's answer `data`.  Threads are anonymous: the new one takes the lowest
\* free slot.
StartExtraction(r, outputs, max_conversations, single_writer) ==
    /\ pc[r] = "idle"
    /\ \A q \in Threads : q < r => pc[q] # "idle"
    /\ conversations < max_conversations
    /\ single_writer => \A q \in Threads : pc[q] = "idle"
    /\ \E data \in outputs :
        /\ extracted' = [extracted EXCEPT ![r] = data]
        /\ pc' = [pc EXCEPT ![r] = pc_at_entity(data, 1)]
    /\ conversations' = conversations + 1
    /\ conversation' = [conversation EXCEPT ![r] = conversations + 1]
    /\ ei' = [ei EXCEPT ![r] = 1]
    /\ ri' = [ri EXCEPT ![r] = 1]
    /\ UNCHANGED <<calls, now, sessions, stores, logs, entities_map, snapshot>>

\* A variant of ExtractionFails: the failure is noticed only after an empty
\* observation has been written for the conversation.
ExtractionFails_after_observation(r, max_conversations, single_writer) ==
    /\ pc[r] = "idle"
    /\ \A q \in Threads : q < r => pc[q] # "idle"
    /\ conversations < max_conversations
    /\ single_writer => \A q \in Threads : pc[q] = "idle"
    /\ conversations' = conversations + 1
    /\ observations' = set(observations, observation_id(conversations + 1, now),
                           observation_doc(conversations + 1, now, <<>>))
    /\ UNCHANGED <<calls, now, sessions, entities, edges, summary, logs, locals>>

\* The LLM call raises or its answer is not JSON: _call_extraction_llm returns
\* None and extract_and_store returns.
ExtractionFails(r, max_conversations, single_writer) ==
    /\ pc[r] = "idle"
    /\ \A q \in Threads : q < r => pc[q] # "idle"
    /\ conversations < max_conversations
    /\ single_writer => \A q \in Threads : pc[q] = "idle"
    /\ conversations' = conversations + 1
    /\ UNCHANGED <<calls, now, sessions, stores, logs, locals>>

\* _create_or_update_entity returns before any store call.
SkipEntity(r) ==
    /\ pc[r] = "entity"
    /\ entity_is_skipped(entity_data(r))
    /\ entities_map' = [entities_map EXCEPT ![r] = recorded(@, entity_data(r))]
    /\ ei' = [ei EXCEPT ![r] = @ + 1]
    /\ pc' = [pc EXCEPT ![r] = pc_at_entity(extracted[r], ei[r] + 1)]
    /\ UNCHANGED <<calls, now, sessions, stores, logs, conversations, conversation, extracted, ri, snapshot>>

\* entity_doc = entity_ref.get()
GetEntity(r) ==
    /\ pc[r] = "entity"
    /\ ~entity_is_skipped(entity_data(r))
    /\ snapshot' = [snapshot EXCEPT ![r] = get(entities, entity_id(r))]
    /\ pc' = [pc EXCEPT ![r] = "entity_write"]
    /\ UNCHANGED <<calls, now, sessions, stores, logs, conversations, conversation, extracted, ei, ri,
                   entities_map>>

\* entity_ref.update(update_data) or entity_ref.set(new_entity), then the
\* entities_map entry.
WriteEntity(r) ==
    /\ pc[r] = "entity_write"
    /\ entities' =
        IF snapshot[r].exists
        THEN [entities EXCEPT ![entity_id(r)] =
                updated_entity(@, snapshot[r].data, entity_data(r), conversation[r])]
        ELSE set(entities, entity_id(r),
                 new_entity(entity_id(r), entity_data(r), entity_data(r).etype,
                            conversation[r]))
    /\ entity_log' = logged(entity_log, entity_id(r),
                        [conversationId |-> conversation[r],
                         confidence |-> entity_data(r).confidence,
                         created |-> ~snapshot[r].exists,
                         snippet |-> observation_snippet(entity_data(r), conversation[r])])
    /\ entities_map' = [entities_map EXCEPT ![r] = recorded(@, entity_data(r))]
    /\ snapshot' = [snapshot EXCEPT ![r] = NoSnapshot]
    /\ ei' = [ei EXCEPT ![r] = @ + 1]
    /\ pc' = [pc EXCEPT ![r] = pc_at_entity(extracted[r], ei[r] + 1)]
    /\ UNCHANGED <<calls, now, sessions, edges, observations, summary, edge_log, conversations, conversation,
                   extracted, ri>>

\* A variant of SkipRelationship: the relationships after the skipped one are
\* abandoned.
SkipRelationship_abandons_rest(r) ==
    /\ pc[r] = "edge"
    /\ relationship_is_skipped(rel(r)) \/ ~is_resolved(r)
    /\ ri' = [ri EXCEPT ![r] = Len(extracted[r].relationships) + 1]
    /\ pc' = [pc EXCEPT ![r] = "observation"]
    /\ UNCHANGED <<calls, now, sessions, stores, logs, conversations, conversation, extracted, ei,
                   entities_map, snapshot>>

\* The relationship is below the floor or an endpoint is not in entities_map.
SkipRelationship(r) ==
    /\ pc[r] = "edge"
    /\ relationship_is_skipped(rel(r)) \/ ~is_resolved(r)
    /\ ri' = [ri EXCEPT ![r] = @ + 1]
    /\ pc' = [pc EXCEPT ![r] = pc_at_relationship(extracted[r], ri[r] + 1)]
    /\ UNCHANGED <<calls, now, sessions, stores, logs, conversations, conversation, extracted, ei,
                   entities_map, snapshot>>

\* edge_doc = edge_ref.get()
GetEdge(r) ==
    /\ pc[r] = "edge"
    /\ ~relationship_is_skipped(rel(r))
    /\ is_resolved(r)
    /\ snapshot' = [snapshot EXCEPT ![r] = get(edges, edge_id(r))]
    /\ pc' = [pc EXCEPT ![r] = "edge_write"]
    /\ UNCHANGED <<calls, now, sessions, stores, logs, conversations, conversation, extracted, ei, ri,
                   entities_map>>

\* edge_ref.update(update_data) or edge_ref.set(new_edge)
WriteEdge(r) ==
    /\ pc[r] = "edge_write"
    /\ edges' =
        IF snapshot[r].exists
        THEN [edges EXCEPT ![edge_id(r)] =
                updated_edge(@, snapshot[r].data, rel(r), conversation[r])]
        ELSE set(edges, edge_id(r),
                 new_edge(edge_id(r), source_id(r), target_id(r), rel(r),
                          conversation[r]))
    /\ edge_log' = logged(edge_log, edge_id(r),
                      [conversationId |-> conversation[r],
                       confidence |-> rel(r).confidence,
                       created |-> ~snapshot[r].exists,
                       edgeType |-> rel(r).relationType,
                       sourceEntityId |-> source_id(r),
                       targetEntityId |-> target_id(r),
                       snippet |-> evidence_snippet(rel(r), conversation[r])])
    /\ snapshot' = [snapshot EXCEPT ![r] = NoSnapshot]
    /\ pc' = [pc EXCEPT ![r] = "stats_source"]
    /\ UNCHANGED <<calls, now, sessions, entities, observations, summary, entity_log, conversations,
                   conversation, extracted, ei, ri, entities_map>>

\* _update_entity_edge_stats, first update(): the source entity.  update() of a
\* document that does not exist raises NotFound, which ends the function.
UpdateSourceStats(r) ==
    /\ pc[r] = "stats_source"
    /\ IF source_id(r) \in DOMAIN entities
       THEN /\ entities' = [entities EXCEPT ![source_id(r)].edgeStats =
                    updated_edge_stats(@, rel(r).relationType, "outgoingEdges")]
            /\ pc' = [pc EXCEPT ![r] = "stats_target"]
            /\ ri' = ri
       ELSE /\ entities' = entities
            /\ pc' = [pc EXCEPT ![r] = pc_at_relationship(extracted[r], ri[r] + 1)]
            /\ ri' = [ri EXCEPT ![r] = @ + 1]
    /\ UNCHANGED <<calls, now, sessions, edges, observations, summary, logs, conversations, conversation,
                   extracted, ei, entities_map, snapshot>>

\* _update_entity_edge_stats, second update(): the target entity.
UpdateTargetStats(r) ==
    /\ pc[r] = "stats_target"
    /\ entities' =
        IF target_id(r) \in DOMAIN entities
        THEN [entities EXCEPT ![target_id(r)].edgeStats =
                updated_edge_stats(@, rel(r).relationType, "incomingEdges")]
        ELSE entities
    /\ ri' = [ri EXCEPT ![r] = @ + 1]
    /\ pc' = [pc EXCEPT ![r] = pc_at_relationship(extracted[r], ri[r] + 1)]
    /\ UNCHANGED <<calls, now, sessions, edges, observations, summary, logs, conversations, conversation,
                   extracted, ei, entities_map, snapshot>>

\* _create_observation: observation_ref.set(observation_doc)
CreateObservation(r) ==
    /\ pc[r] = "observation"
    /\ observations' = set(observations, observation_id(conversation[r], now),
                           observation_doc(conversation[r], now, extracted[r].items))
    /\ pc' = [pc EXCEPT ![r] = "summary_read"]
    /\ UNCHANGED <<calls, now, sessions, entities, edges, summary, logs, conversations, conversation,
                   extracted, ei, ri, entities_map, snapshot>>

\* _update_summary: entities = list(entities_ref.stream())
ReadEntities(r) ==
    /\ pc[r] = "summary_read"
    /\ snapshot' = [snapshot EXCEPT ![r] = [exists |-> TRUE, data |-> stream(entities)]]
    /\ pc' = [pc EXCEPT ![r] = "summary_write"]
    /\ UNCHANGED <<calls, now, sessions, stores, logs, conversations, conversation, extracted, ei, ri,
                   entities_map>>

\* _update_summary: summary_ref.set(summary_doc, merge=True); extract_and_store
\* returns.
WriteSummary(r) ==
    /\ pc[r] = "summary_write"
    /\ summary' = summary_doc(snapshot[r].data)
    /\ pc' = [pc EXCEPT ![r] = "idle"]
    /\ conversation' = [conversation EXCEPT ![r] = 0]
    /\ extracted' = [extracted EXCEPT ![r] = NoData]
    /\ ei' = [ei EXCEPT ![r] = 0]
    /\ ri' = [ri EXCEPT ![r] = 0]
    /\ entities_map' = [entities_map EXCEPT ![r] = <<>>]
    /\ snapshot' = [snapshot EXCEPT ![r] = NoSnapshot]
    /\ UNCHANGED <<calls, now, sessions, entities, edges, observations, logs, conversations>>

\* An observation document of conversation c is stored.
HasObservation(c) ==
    \E id \in DOMAIN observations : observations[id].conversationId = c

\* One step of thread r after its extraction has started.
Step(r) ==
    \/ SkipEntity(r)
    \/ GetEntity(r)
    \/ WriteEntity(r)
    \/ SkipRelationship(r)
    \/ GetEdge(r)
    \/ WriteEdge(r)
    \/ UpdateSourceStats(r)
    \/ UpdateTargetStats(r)
    \/ CreateObservation(r)
    \/ ReadEntities(r)
    \/ WriteSummary(r)

\* Extraction threads of the same child interleave at every store call.
Next ==
    \E r \in Threads :
        \/ StartExtraction(r, Outputs, MaxConversations, FALSE)
        \/ ExtractionFails(r, MaxConversations, FALSE)
        \/ Step(r)

Spec ==
    Init /\ [][Next]_vars

\* One extraction at a time: a conversation ends only when no extraction is in
\* flight.
NextSeq ==
    \E r \in Threads :
        \/ StartExtraction(r, OutputsSeq, MaxConversationsSeq, TRUE)
        \/ ExtractionFails(r, MaxConversationsSeq, TRUE)
        \/ Step(r)

SpecSeq ==
    Init /\ [][NextSeq]_vars

\* One extraction at a time, many conversations about the same two entities.
NextDeep ==
    \E r \in Threads :
        \/ StartExtraction(r, OutputsDeep, MaxConversationsDeep, TRUE)
        \/ ExtractionFails(r, MaxConversationsDeep, TRUE)
        \/ Step(r)

SpecDeep ==
    Init /\ [][NextDeep]_vars

(***************************************************************************)
(* Properties                                                              *)
(***************************************************************************)

\* No extraction is in flight.
AllIdle ==
    \A r \in Threads : pc[r] = "idle"

\* The merges of `log` after the first all took the UPDATE branch: the document
\* was created once and merged into afterwards.
CreatedOnce(log) ==
    \A k \in 2..Len(log) : ~log[k].created

RECURSIVE MaxConfidence(_)
MaxConfidence(log) ==
    IF log = <<>> THEN 0 ELSE max(Head(log).confidence, MaxConfidence(Tail(log)))

\* C1: with one extraction at a time, every stored edge has observationCount k
\* and weight equal to the arithmetic mean of the k confidences merged into it
\* (the first merge stores the confidence itself, each later one
\* (w*n + c)/(n+1)); and 0.8 merged with 0.4 gives 0.6.
C1_EdgeWeightIsRunningMean ==
    /\ \A id \in DOMAIN edges :
        LET log == log_of(edge_log, id)
        IN  /\ Len(log) >= 1
            /\ edges[id].observationCount = Len(log)
            /\ edges[id].weight.num * Len(log) = SumConfidence(log) * edges[id].weight.den
    /\ new_weight(AsWeight(8), 1, 4) = AsWeight(6)

\* C1 witness: an edge merged three times with confidences that differ, so that
\* its mean is not one of them.
C1_Witness ==
    \E id \in DOMAIN edges :
        /\ edges[id].observationCount = 3
        /\ Len(log_of(edge_log, id)) = 3
        /\ edges[id].weight.den = 3

\* C2: once all extractions have finished, an edge that was created once and
\* then merged into, also by extractions running at the same time, has
\* observationCount equal to the number of merges and weight equal to the mean
\* of all merged confidences: no merge's contribution is lost.
C2_ConcurrentEdgeMergesAllCount ==
    AllIdle =>
        \A id \in DOMAIN edges :
            LET log == log_of(edge_log, id)
            IN  CreatedOnce(log) =>
                    /\ edges[id].observationCount = Len(log)
                    /\ edges[id].weight.num * Len(log)
                        = SumConfidence(log) * edges[id].weight.den

\* C3: with one extraction at a time, the strength of every stored entity is the
\* maximum of the confidences merged into it, so a merge weaker than the stored
\* strength leaves it unchanged (0.6 against 0.9 leaves 0.9) and the strength
\* never decreases.
C3_StrengthIsMaxOfMerges ==
    /\ \A id \in DOMAIN entities :
        entities[id].strength = MaxConfidence(log_of(entity_log, id))
    /\ merged_strength(9, 6) = 9

\* C3 witness: an entity of strength 0.9 whose latest merge had confidence 0.7.
C3_Witness ==
    \E id \in DOMAIN entities :
        LET log == log_of(entity_log, id)
        IN  /\ Len(log) >= 2
            /\ log[Len(log)].confidence = 7
            /\ entities[id].strength = 9

\* C4: under every interleaving of extractions, no step lowers the strength of
\* a stored entity, and when all extractions have finished the strength is the
\* maximum confidence merged into the entity.
C4_StrengthMonotoneUnderConcurrency ==
    [][/\ \A id \in DOMAIN entities :
            /\ id \in DOMAIN entities'
            /\ entities'[id].strength >= entities[id].strength
       /\ AllIdle' =>
            \A id \in DOMAIN entities' :
                entities'[id].strength = MaxConfidence(log_of(entity_log', id))]_vars

\* C5: once all extractions have finished, the mentionCount of every entity is
\* the number of merges into it, whichever of them took the create path.
C5_MentionCountCountsEveryMerge ==
    AllIdle =>
        \A id \in DOMAIN entities :
            entities[id].mentionCount = Len(log_of(entity_log, id))

\* Thread r takes the step.
Moves(r) ==
    pc'[r] # pc[r] \/ ei'[r] # ei[r] \/ ri'[r] # ri[r]

Contains(list, x) ==
    \E k \in 1..Len(list) : list[k] = x

\* C6: once all extractions have finished, a document that was created once
\* and merged into afterwards, also by extractions running at the same time,
\* holds the contribution of every merge as long as the bound of the list is
\* not reached: recentObservations of an entity (5), conversationIds (10) and
\* evidenceSnippets (3) of an edge.
C6_ConcurrentListAppendsAllLand ==
    AllIdle =>
        /\ \A id \in DOMAIN entities :
            LET log == log_of(entity_log, id)
            IN  (CreatedOnce(log) /\ Len(log) <= 5) =>
                    \A k \in 1..Len(log) :
                        Contains(entities[id].recentObservations, log[k].snippet)
        /\ \A id \in DOMAIN edges :
            LET log == log_of(edge_log, id)
            IN  (CreatedOnce(log) /\ Len(log) <= 3) =>
                    \A k \in 1..Len(log) :
                        /\ Contains(edges[id].evidenceSnippets, log[k].snippet)
                        /\ Contains(edges[id].conversationIds, log[k].conversationId)

\* C7: a step a thread takes while it handles an entity item of confidence
\* below 0.7 changes no entity document, a step it takes while it handles a
\* relationship of confidence below 0.7 changes no edge and no entity document
\* (so no edgeStats), and no observation document lists an entity of
\* confidence below 0.7.
C7_ConfidenceFloor ==
    [][/\ \A r \in Threads :
            (/\ pc[r] \in {"entity", "entity_write"}
             /\ entity_data(r).confidence < 7
             /\ Moves(r))
            => UNCHANGED <<entities, entity_log>>
       /\ \A r \in Threads :
            (/\ pc[r] \in {"edge", "edge_write", "stats_source", "stats_target"}
             /\ rel(r).confidence < 7
             /\ Moves(r))
            => UNCHANGED <<edges, edge_log, entities>>
       /\ \A c \in DOMAIN observations' :
            \A k \in 1..Len(observations'[c].entities) :
                observations'[c].entities[k].confidence >= 7]_vars

\* C7 witness: an extraction has handled an entity item and a relationship
\* below the floor and written its observation; the entity is not stored.
C7_Witness ==
    \E r \in Threads :
        /\ pc[r] = "summary_read"
        /\ \E k \in 1..Len(extracted[r].items) :
            /\ extracted[r].items[k].confidence < 7
            /\ generate_entity_id(extracted[r].items[k].name, extracted[r].items[k].etype)
                \notin DOMAIN entities
        /\ \E k \in 1..Len(extracted[r].relationships) :
            extracted[r].relationships[k].confidence < 7
        /\ HasObservation(conversation[r])

\* C8: the source and the target of every stored edge are stored entities: a
\* relationship whose endpoint did not pass the confidence floor, and is not
\* stored, creates no edge.
C8_EdgeEndpointsAreStoredEntities ==
    \A id \in DOMAIN edges :
        /\ edges[id].sourceEntityId \in DOMAIN entities
        /\ edges[id].targetEntityId \in DOMAIN entities

\* The items of s without repetitions, each at its first place.
RECURSIVE DistinctInOrder(_)
DistinctInOrder(s) ==
    IF s = <<>> THEN <<>>
    ELSE LET front == DistinctInOrder(SubSeq(s, 1, Len(s) - 1))
         IN  IF Contains(front, s[Len(s)]) THEN front ELSE Append(front, s[Len(s)])

\* The last n items of s (n is the bound the claim names).
Latest(s, n) ==
    [k \in 1..(IF Len(s) < n THEN Len(s) ELSE n) |->
        s[k + (IF Len(s) < n THEN 0 ELSE Len(s) - n)]]

C10_OppositeOrdersShareAnEdgeOnlyIfTemporal ==
    \A id1 \in DOMAIN edge_log, id2 \in DOMAIN edge_log :
        \A k1 \in 1..Len(edge_log[id1]), k2 \in 1..Len(edge_log[id2]) :
            LET x == edge_log[id1][k1]
                y == edge_log[id2][k2]
            IN  (/\ x.edgeType = y.edgeType
                 /\ x.sourceEntityId # x.targetEntityId
                 /\ x.sourceEntityId = y.targetEntityId
                 /\ x.targetEntityId = y.sourceEntityId)
                => ((id1 = id2) <=> (x.edgeType = "temporal_cooccurrence"))

(***************************************************************************)
(* _generate_entity_id as a function of its arguments                      *)
(***************************************************************************)

\* The longest name drawn.
MaxNameLen ==
    3

\* The characters names are drawn from: letters of both cases, a digit,
\* punctuation, the space and the tab.
NameAlphabet ==
    {"a", "A", "1", "!", " ", "\t"}

Names ==
    UNION {[1..k -> NameAlphabet] : k \in 0..MaxNameLen}

\* The array names _generate_entity_id is called with.
EntityTypes ==
    {"topics", "skills"}

\* No conversation has ended and no extraction is in flight.
NoExtraction ==
    /\ observations = <<>>
    /\ summary = <<>>
    /\ conversations = 0
    /\ pc = [r \in Threads |-> "idle"]
    /\ conversation = [r \in Threads |-> 0]
    /\ extracted = [r \in Threads |-> NoData]
    /\ ei = [r \in Threads |-> 0]
    /\ ri = [r \in Threads |-> 0]
    /\ entities_map = [r \in Threads |-> <<>>]
    /\ snapshot = [r \in Threads |-> NoSnapshot]
    /\ entity_log = <<>>
    /\ edge_log = <<>>
    /\ reads = <<>>
    /\ now = 0
    /\ NoSessions

InitId ==
    /\ entities = <<>>
    /\ edges = <<>>
    /\ NoExtraction
    /\ request \in [op : {"generate_entity_id"}, name : Names, entity_type : EntityTypes]
    /\ response = NoResponse

\* entity_id = self._generate_entity_id(name, entity_type)
GenerateEntityId ==
    /\ request.op = "generate_entity_id"
    /\ ~response.returned
    /\ response' = Returned(generate_entity_id(request.name, request.entity_type))
    /\ UNCHANGED <<stores, conversations, locals, logs, now, sessions, request, reads>>

NextId ==
    GenerateEntityId

SpecId ==
    InitId /\ [][NextId]_vars

\* The name lowercased with every character outside [a-z0-9 ] removed.
LowercasedAlnumAndSpaces(name) ==
    SelectSeq(lower(name), LAMBDA t : t \in {"a", "b", "1", "topic", " "})

\* s with each run of one or more spaces replaced by one underscore.
RECURSIVE SpaceRunsToUnderscore(_)
SpaceRunsToUnderscore(s) ==
    IF s = <<>> THEN <<>>
    ELSE IF Head(s) # " " THEN <<Head(s)>> \o SpaceRunsToUnderscore(Tail(s))
    ELSE IF Tail(s) # <<>> /\ Head(Tail(s)) = " " THEN SpaceRunsToUnderscore(Tail(s))
    ELSE <<"_">> \o SpaceRunsToUnderscore(Tail(s))

\* The normal form of a name: lowercase, keep a-z, 0-9 and the space, one
\* underscore per run of spaces, prefixed with the singular type.
ReferenceEntityId(name, entity_type) ==
    <<singular(entity_type), "_">> \o SpaceRunsToUnderscore(LowercasedAlnumAndSpaces(name))

\* C11: the ID of a name equals the ID of the same name lowercased with every
\* character outside [a-z0-9 ] removed, for every name and entity type.
C11_EntityIdIgnoresCaseAndPunctuation ==
    (request.op = "generate_entity_id" /\ response.returned)
        => response.value = generate_entity_id(LowercasedAlnumAndSpaces(request.name),
                                               request.entity_type)

\* C12: the ID of a name is its reference normal form (lowercase, only a-z, 0-9
\* and space kept, each run of spaces replaced by one underscore, singular type
\* prefixed), so names that differ only in the number of consecutive spaces
\* get the same ID.
C12_EntityIdIsReferenceNormalForm ==
    (request.op = "generate_entity_id" /\ response.returned)
        => response.value = ReferenceEntityId(request.name, request.entity_type)

\* C13: an extraction whose LLM call raises, or whose answer is not parseable
\* JSON, returns leaving the entities, the edges, the observations and the
\* summary of the child exactly as they were.
C13_FailedExtractionWritesNothing ==
    [][(conversations' = conversations + 1 /\ pc' = pc)
        => UNCHANGED <<entities, edges, observations, summary>>]_vars

\* An extraction failed after another one had filled the store.
C13_Witness ==
    /\ AllIdle
    /\ entities # <<>> /\ edges # <<>> /\ summary # <<>>
    /\ Cardinality(DOMAIN observations) = 1
    /\ conversations = 2
    /\ HasObservation(1)

\* The entity arrays of `data` list an entity of this type and name (names are
\* compared without case).
Listed(data, type, name) ==
    \E i \in 1..Len(data.items) :
        /\ data.items[i].name # <<>>
        /\ singular(data.items[i].etype) = type
        /\ lower(data.items[i].name) = lower(name)

\* Both ends of the relationship are listed in the entity arrays of `data`.
Resolvable(data, rl) ==
    /\ Listed(data, rl.sourceType, rl.sourceEntity)
    /\ Listed(data, rl.targetType, rl.targetEntity)

\* The relationship was merged into an edge by this conversation.
MergedBy(rl, conv) ==
    \E id \in DOMAIN edge_log : \E k \in 1..Len(edge_log[id]) :
        /\ edge_log[id][k].conversationId = conv
        /\ edge_log[id][k].edgeType = rl.relationType
        /\ edge_log[id][k].confidence = rl.confidence
        /\ edge_log[id][k].sourceEntityId
            = generate_entity_id(rl.sourceEntity, rl.sourceType)
        /\ edge_log[id][k].targetEntityId
            = generate_entity_id(rl.targetEntity, rl.targetType)

\* C14: a relationship at or above the floor with an end that the entity
\* arrays of its run do not list (stored earlier or not) changes no edge and no
\* entity; the run goes on to its other relationships, which are merged when
\* both their ends are listed, writes its observation and recomputes the
\* summary.
C14_UnresolvableRelationshipSkippedAlone ==
    /\ [][\A r \in Threads :
            (/\ pc[r] = "edge"
             /\ rel(r).confidence >= MinConfidence
             /\ ~Resolvable(extracted[r], rel(r))
             /\ <<pc[r], ri[r]>>' # <<pc[r], ri[r]>>)
            => /\ UNCHANGED <<entities, edges, edge_log>>
               /\ ri'[r] = ri[r] + 1
               /\ pc'[r] = pc_at_relationship(extracted[r], ri[r] + 1)]_vars
    /\ [](\A r \in Threads :
            pc[r] \in {"summary_read", "summary_write"}
            => /\ HasObservation(conversation[r])
               /\ \A j \in 1..Len(extracted[r].relationships) :
                    LET rl == extracted[r].relationships[j]
                    IN  (rl.confidence >= MinConfidence /\ Resolvable(extracted[r], rl))
                            <=> MergedBy(rl, conversation[r]))
    /\ [][\A r \in Threads :
            (pc[r] = "summary_write" /\ pc'[r] = "idle")
            => summary' = summary_doc(stream(entities'))]_vars

\* A run that named the stored but unlisted entity "a" in its first relationship
\* has merged its second relationship and written its observation.
C14_Witness ==
    \E r \in Threads :
        /\ pc[r] = "summary_write"
        /\ extracted[r] = OutUnlisted
        /\ generate_entity_id(NameA, "topics") \in DOMAIN entities
        /\ ~MergedBy(extracted[r].relationships[1], conversation[r])
        /\ MergedBy(extracted[r].relationships[2], conversation[r])
        /\ HasObservation(conversation[r])

(***************************************************************************)
(* Graph query service (src/graph_query_service.py): reads of the stored   *)
(* graph.  A query runs against the graph as it stands: each query is one   *)
(* step, computed as the code computes it.                                  *)
(***************************************************************************)

\* extract_context_subgraph: min_weight=0.7, in tenths.
ContextMinWeight ==
    7

\* edge['weight'] >= min_weight, min_weight in tenths.
weight_at_least(weight, min_weight) ==
    weight.num >= min_weight * weight.den

\* edge_types = None
AnyType ==
    [given |-> FALSE, types |-> {}]

\* edge_types = [...]
OnlyTypes(types) ==
    [given |-> TRUE, types |-> types]

\* `edge_types is None or edge['edgeType'] in edge_types`
type_passes(edge, edge_types) ==
    ~edge_types.given \/ edge.edgeType \in edge_types.types

\* _get_entity_edges: the source query, then the target query without the edges
\* already seen.
get_entity_edges(id, edge_types, min_weight) ==
    LET weight_passes(e) == min_weight > 0 => weight_at_least(e.weight, min_weight)
        query1 == SelectSeq(stream(edges), LAMBDA e : e.sourceEntityId = id /\ weight_passes(e))
        query2 == SelectSeq(stream(edges), LAMBDA e : e.targetEntityId = id /\ weight_passes(e))
        first == SelectSeq(query1, LAMBDA e : type_passes(e, edge_types))
        seen_ids == {first[k].id : k \in 1..Len(first)}
    IN  first \o SelectSeq(query2, LAMBDA e : type_passes(e, edge_types) /\ e.id \notin seen_ids)

\* The other end of an edge of `current_id`.
neighbor_of(edge, current_id) ==
    IF edge.sourceEntityId = current_id THEN edge.targetEntityId ELSE edge.sourceEntityId

\* A variant of popleft: queue.pop(), the item added last.
pop_right(queue) ==
    [item |-> queue[Len(queue)], rest |-> SubSeq(queue, 1, Len(queue) - 1)]

\* queue.popleft()
popleft(queue) ==
    [item |-> Head(queue), rest |-> Tail(queue)]

\* entities_by_depth[depth].append(entity) on a defaultdict(list)
appended_at(by_depth, depth, entity) ==
    IF depth \in DOMAIN by_depth
    THEN [by_depth EXCEPT ![depth] = Append(@, entity)]
    ELSE (depth :> <<entity>>) @@ by_depth

\* get_related_entities: the `for edge in edges` loop of one dequeued entity.
RECURSIVE related_for_edges(_, _, _, _)
related_for_edges(st, found, current_id, depth) ==
    IF found = <<>> THEN st
    ELSE LET edge == Head(found)
             neighbor_id == neighbor_of(edge, current_id)
             next == IF neighbor_id \in st.visited_entities
                        \/ neighbor_id \notin DOMAIN entities
                     THEN st
                     ELSE [visited_entities |-> st.visited_entities \cup {neighbor_id},
                           expanded |-> st.expanded,
                           entities_by_depth |->
                               appended_at(st.entities_by_depth, depth + 1,
                                           entities[neighbor_id]),
                           all_edges |-> Append(st.all_edges, edge),
                           queue |-> Append(st.queue, <<neighbor_id, depth + 1>>)]
         IN  related_for_edges(next, Tail(found), current_id, depth)

\* get_related_entities: the `while queue` loop.
RECURSIVE related_while_queue(_, _, _, _)
related_while_queue(st, max_depth, edge_types, min_weight) ==
    IF st.queue = <<>> THEN st
    ELSE LET current_id == popleft(st.queue).item[1]
             depth == popleft(st.queue).item[2]
             popped == [st EXCEPT !.queue = popleft(st.queue).rest]
         IN  IF depth >= max_depth
             THEN related_while_queue(popped, max_depth, edge_types, min_weight)
             ELSE related_while_queue(
                     related_for_edges([popped EXCEPT !.expanded = Append(@, current_id)],
                                       get_entity_edges(current_id, edge_types, min_weight),
                                       current_id, depth),
                     max_depth, edge_types, min_weight)

\* get_related_entities up to its return statement; `expanded` lists the
\* entities handed to _get_entity_edges.
related_traversal(id, max_depth, edge_types, min_weight) ==
    related_while_queue([visited_entities |-> {id},
                         expanded |-> <<>>,
                         entities_by_depth |->
                             IF id \in DOMAIN entities THEN (0 :> <<entities[id]>>)
                             ELSE <<>>,
                         all_edges |-> <<>>,
                         queue |-> <<<<id, 0>>>>],
                        max_depth, edge_types, min_weight)

\* get_related_entities
get_related_entities(id, max_depth, edge_types, min_weight) ==
    LET st == related_traversal(id, max_depth, edge_types, min_weight)
    IN  [entities |-> st.entities_by_depth,
         edges |-> st.all_edges,
         totalEntities |-> Cardinality(st.visited_entities),
         totalEdges |-> Len(st.all_edges)]

\* A variant of is_seed: every entity is flagged.
is_seed_always(id, seed_entities) ==
    TRUE

\* entity['isSeed'] = entity_id in seed_entities
is_seed(id, seed_entities) ==
    \E k \in 1..Len(seed_entities) : seed_entities[k] = id

\* extract_context_subgraph: the `for edge in edges` loop of one dequeued entity.
RECURSIVE context_for_edges(_, _, _, _, _)
context_for_edges(st, found, current_id, current_depth, max_entities) ==
    IF found = <<>> THEN st
    ELSE LET edge == Head(found)
             neighbor_id == neighbor_of(edge, current_id)
             next == IF neighbor_id \notin st.visited
                        /\ Len(st.all_entities) < max_entities
                     THEN [st EXCEPT !.visited = @ \cup {neighbor_id},
                                     !.queue = Append(@, <<neighbor_id, current_depth + 1>>),
                                     !.all_edges = Append(@, edge)]
                     ELSE st
         IN  context_for_edges(next, Tail(found), current_id, current_depth, max_entities)

\* extract_context_subgraph: the `while queue and len(all_entities) < max_entities`
\* loop.
RECURSIVE context_while_queue(_, _, _, _)
context_while_queue(st, seed_entities, max_entities, depth) ==
    IF st.queue = <<>> \/ ~(Len(st.all_entities) < max_entities) THEN st
    ELSE LET current_id == popleft(st.queue).item[1]
             current_depth == popleft(st.queue).item[2]
             popped == [st EXCEPT
                          !.queue = popleft(st.queue).rest,
                          !.all_entities =
                              IF current_id \in DOMAIN entities
                              THEN Append(@, [isSeed |-> is_seed(current_id, seed_entities)]
                                             @@ entities[current_id])
                              ELSE @]
         IN  IF current_depth >= depth
             THEN context_while_queue(popped, seed_entities, max_entities, depth)
             ELSE context_while_queue(
                     context_for_edges([popped EXCEPT !.expanded = Append(@, current_id)],
                                       get_entity_edges(current_id, AnyType, ContextMinWeight),
                                       current_id, current_depth, max_entities),
                     seed_entities, max_entities, depth)

\* extract_context_subgraph up to its return statement; `expanded` lists the
\* entities handed to _get_entity_edges.
context_traversal(seed_entities, max_entities, depth) ==
    context_while_queue([all_entities |-> <<>>,
                         all_edges |-> <<>>,
                         expanded |-> <<>>,
                         visited |-> {seed_entities[k] : k \in 1..Len(seed_entities)},
                         queue |-> [k \in 1..Len(seed_entities) |->
                                        <<seed_entities[k], 0>>]],
                        seed_entities, max_entities, depth)

\* extract_context_subgraph
extract_context_subgraph(seed_entities, max_entities, depth) ==
    LET st == context_traversal(seed_entities, max_entities, depth)
    IN  [entities |-> st.all_entities,
         edges |-> st.all_edges,
         totalEntities |-> Len(st.all_entities),
         totalEdges |-> Len(st.all_edges)]

(***************************************************************************)
(* Stored graphs the queries are run against                               *)
(***************************************************************************)

\* The entity document stored for an extracted item.
StoredEntity(item) ==
    new_entity(generate_entity_id(item.name, item.etype), item, item.etype, 1)

\* The edge document stored for a relationship between two extracted items.
StoredEdge(source, target, relation_type, confidence, prerequisite) ==
    LET source_entity_id == generate_entity_id(source.name, source.etype)
        target_entity_id == generate_entity_id(target.name, target.etype)
        relationship == [sourceType |-> singular(source.etype),
                         sourceEntity |-> source.name,
                         targetType |-> singular(target.etype),
                         targetEntity |-> target.name,
                         relationType |-> relation_type,
                         confidence |-> confidence,
                         evidence |-> <<"!">>,
                         attributes |-> [prerequisite |-> prerequisite]]
    IN  new_edge(edge_id_of(relation_type, source_entity_id, target_entity_id),
                 source_entity_id, target_entity_id, relationship, 1)

\* The collection holding the documents `docs` under their IDs.
Collection(docs) ==
    [id \in {d.id : d \in docs} |-> CHOOSE d \in docs : d.id = id]

IdOf(item) ==
    generate_entity_id(item.name, item.etype)

(***************************************************************************)
(* get_related_entities and extract_context_subgraph on stored graphs      *)
(***************************************************************************)

\* The largest max_depth / depth asked for.
MaxDepth ==
    3

\* The largest max_entities asked for.
MaxEntities ==
    3

TopicA ==
    Item("topics", NameA, 9, <<"A">>)

TopicB ==
    Item("topics", NameB, 8, <<"B">>)

TopicC ==
    Item("topics", <<"1">>, 8, <<"1">>)

TopicD ==
    Item("topics", <<"a", "b">>, 7, <<"a">>)

TopicE ==
    Item("topics", <<"b", "a">>, 7, <<"b">>)

\* The edges a traversed graph is made of: the chain a - b - c - d with b - c
\* stored from c to b, edges that close cycles, an entity e next to b and c,
\* weights around the two thresholds 0.5 and 0.7, and the three edge types.
TraversalEdges ==
    {StoredEdge(TopicA, TopicB, "learning_pathway", 8, TRUE),
     StoredEdge(TopicC, TopicB, "learning_pathway", 8, FALSE),
     StoredEdge(TopicC, TopicD, "temporal_cooccurrence", 8, FALSE),
     StoredEdge(TopicA, TopicC, "temporal_cooccurrence", 4, FALSE),
     StoredEdge(TopicD, TopicA, "learning_pathway", 6, FALSE),
     StoredEdge(TopicB, TopicD, "emotional_association", 8, FALSE),
     StoredEdge(TopicA, TopicD, "temporal_cooccurrence", 7, FALSE),
     StoredEdge(TopicB, TopicE, "learning_pathway", 8, FALSE),
     StoredEdge(TopicE, TopicC, "temporal_cooccurrence", 9, FALSE)}

\* The entities stored: all five, all but d, all but the start a.
TraversalEntities ==
    {{TopicA, TopicB, TopicC, TopicD, TopicE}, {TopicA, TopicB, TopicC, TopicE},
     {TopicB, TopicC, TopicD, TopicE}}

RelatedRequests ==
    [op : {"get_related_entities"},
     entity_id : {IdOf(TopicA)},
     max_depth : 0..MaxDepth,
     edge_types : {AnyType, OnlyTypes({"learning_pathway"}),
                   OnlyTypes({"learning_pathway", "temporal_cooccurrence"})},
     min_weight : {0, 5}]

ContextRequests ==
    [op : {"extract_context_subgraph"},
     seed_entities : {<<IdOf(TopicA)>>},
     max_entities : 0..MaxEntities,
     depth : 0..(MaxDepth - 1)]

InitTraversal ==
    /\ \E stored \in TraversalEntities :
        entities = Collection({StoredEntity(item) : item \in stored})
    /\ \E present \in SUBSET TraversalEdges :
        edges = Collection(present)
    /\ NoExtraction
    /\ request \in RelatedRequests \cup ContextRequests
    /\ response = NoResponse

GetRelatedEntities ==
    /\ request.op = "get_related_entities"
    /\ ~response.returned
    /\ response' = Returned(get_related_entities(request.entity_id, request.max_depth,
                                                 request.edge_types, request.min_weight))
    /\ reads' = related_traversal(request.entity_id, request.max_depth,
                                  request.edge_types, request.min_weight).expanded
    /\ UNCHANGED <<stores, conversations, locals, logs, now, sessions, request>>

ExtractContextSubgraph ==
    /\ request.op = "extract_context_subgraph"
    /\ ~response.returned
    /\ response' = Returned(extract_context_subgraph(request.seed_entities,
                                                     request.max_entities, request.depth))
    /\ reads' = context_traversal(request.seed_entities, request.max_entities,
                                  request.depth).expanded
    /\ UNCHANGED <<stores, conversations, locals, logs, now, sessions, request>>

NextTraversal ==
    \/ GetRelatedEntities
    \/ ExtractContextSubgraph

SpecTraversal ==
    InitTraversal /\ [][NextTraversal]_vars

\* Every edge joins two stored entities.
EndpointsStored ==
    \A id \in DOMAIN edges :
        edges[id].sourceEntityId \in DOMAIN entities
        /\ edges[id].targetEntityId \in DOMAIN entities

\* The entities joined to x by an edge of one of the given types (all types
\* when none is given) with weight >= min_weight, in either direction.
Neighbours(x, edge_types, min_weight) ==
    {y \in DOMAIN entities :
        \E id \in DOMAIN edges :
            /\ edge_types.given => edges[id].edgeType \in edge_types.types
            /\ weight_at_least(edges[id].weight, min_weight)
            /\ \/ edges[id].sourceEntityId = x /\ edges[id].targetEntityId = y
               \/ edges[id].sourceEntityId = y /\ edges[id].targetEntityId = x}

\* The entities within d hops of `start`.
RECURSIVE Within(_, _, _, _)
Within(start, d, edge_types, min_weight) ==
    IF d = 0 THEN {start}
    ELSE LET near == Within(start, d - 1, edge_types, min_weight)
         IN  near \cup UNION {Neighbours(x, edge_types, min_weight) : x \in near}

\* The entities at exactly d hops of `start`.
AtDistance(start, d, edge_types, min_weight) ==
    Within(start, d, edge_types, min_weight)
        \ (IF d = 0 THEN {} ELSE Within(start, d - 1, edge_types, min_weight))

\* The IDs of a list of documents.
Ids(docs) ==
    {docs[k].id : k \in 1..Len(docs)}

\* C15: on a graph whose edges all join stored entities, from a stored start,
\* the bucket of get_related_entities for depth d in 1..maxDepth holds exactly
\* the entities at shortest distance d over the qualifying edges, once each;
\* there is no bucket beyond maxDepth and the start is alone at depth 0.
C15_RelatedEntitiesAreBucketsByDistance ==
    (/\ request.op = "get_related_entities"
     /\ response.returned
     /\ request.entity_id \in DOMAIN entities
     /\ EndpointsStored)
    => LET buckets == response.value.entities
           bucket(d) == IF d \in DOMAIN buckets THEN buckets[d] ELSE <<>>
       IN  /\ DOMAIN buckets \subseteq 0..request.max_depth
           /\ \A d \in DOMAIN buckets : buckets[d] # <<>>
           /\ Ids(bucket(0)) = {request.entity_id} /\ Len(bucket(0)) = 1
           /\ \A d \in 1..request.max_depth :
                /\ Ids(bucket(d)) = AtDistance(request.entity_id, d, request.edge_types,
                                               request.min_weight)
                /\ Len(bucket(d)) = Cardinality(Ids(bucket(d)))
                /\ \A k \in 1..Len(bucket(d)) : bucket(d)[k] = entities[bucket(d)[k].id]
           /\ \A d1, d2 \in DOMAIN buckets :
                d1 # d2 => Ids(buckets[d1]) \cap Ids(buckets[d2]) = {}

\* From a over the chain a - b - c - d with maxDepth 2: b at depth 1, c at depth
\* 2, d stored and at distance 3 but not returned.
C15_Witness ==
    /\ request.op = "get_related_entities"
    /\ response.returned
    /\ EndpointsStored
    /\ request.max_depth = 2
    /\ IdOf(TopicD) \in DOMAIN entities
    /\ AtDistance(request.entity_id, 3, request.edge_types, request.min_weight)
        = {IdOf(TopicD)}
    /\ DOMAIN response.value.entities = 0..2
    /\ Ids(response.value.entities[1]) = {IdOf(TopicB)}
    /\ Ids(response.value.entities[2]) = {IdOf(TopicC)}

(***************************************************************************)
(* find_learning_path and get_prerequisite_chain                           *)
(***************************************************************************)

\* A variant of outgoing_learning_edges: the outgoing edges of every type.
outgoing_edges_of_any_type(current_id) ==
    SelectSeq(stream(edges), LAMBDA e : e.sourceEntityId = current_id)

\* edges_ref.where("edgeType", "==", "learning_pathway")
\*          .where("sourceEntityId", "==", current_id).stream()
outgoing_learning_edges(current_id) ==
    SelectSeq(stream(edges), LAMBDA e : e.edgeType = "learning_pathway"
                            /\ e.sourceEntityId = current_id)

\* find_learning_path: the `for edge_doc in edges` loop of one dequeued entity.
RECURSIVE path_for_edges(_, _, _)
path_for_edges(st, found, path) ==
    IF found = <<>> THEN st
    ELSE LET next_id == Head(found).targetEntityId
             next == IF next_id \notin st.visited
                     THEN [visited |-> st.visited \cup {next_id},
                           expanded |-> st.expanded,
                           queue |-> Append(st.queue, <<next_id, Append(path, next_id)>>)]
                     ELSE st
         IN  path_for_edges(next, Tail(found), path)

\* `return None`
NoPath ==
    [found |-> FALSE, entities |-> <<>>]

\* `return entities`: the stored entities of the path.
PathFound(path) ==
    [found |-> TRUE,
     entities |-> LET stored == SelectSeq(path, LAMBDA id : id \in DOMAIN entities)
                  IN  [k \in 1..Len(stored) |-> entities[stored[k]]]]

\* find_learning_path: the `while queue` loop.
RECURSIVE path_while_queue(_, _, _)
path_while_queue(st, target_entity_id, max_depth) ==
    IF st.queue = <<>> THEN [result |-> NoPath, expanded |-> st.expanded]
    ELSE LET current_id == popleft(st.queue).item[1]
             path == popleft(st.queue).item[2]
             popped == [st EXCEPT !.queue = popleft(st.queue).rest]
         IN  IF Len(path) > max_depth
             THEN path_while_queue(popped, target_entity_id, max_depth)
             ELSE IF current_id = target_entity_id
             THEN [result |-> PathFound(path), expanded |-> st.expanded]
             ELSE path_while_queue(
                     path_for_edges([popped EXCEPT !.expanded = Append(@, current_id)],
                                    outgoing_learning_edges(current_id), path),
                     target_entity_id, max_depth)

\* find_learning_path up to its return statement; `expanded` lists the entities
\* whose outgoing edges were queried.
path_traversal(start_entity_id, target_entity_id, max_depth) ==
    path_while_queue([visited |-> {start_entity_id},
                      expanded |-> <<>>,
                      queue |-> <<<<start_entity_id, <<start_entity_id>>>>>>],
                     target_entity_id, max_depth)

\* find_learning_path
find_learning_path(start_entity_id, target_entity_id, max_depth) ==
    path_traversal(start_entity_id, target_entity_id, max_depth).result

\* edges_ref.where("edgeType", "==", "learning_pathway")
\*          .where("targetEntityId", "==", current).stream(), then the filter
\* on attributes.prerequisite.
prereq_edges_of(current) ==
    SelectSeq(stream(edges), LAMBDA e : /\ e.edgeType = "learning_pathway"
                            /\ e.targetEntityId = current
                            /\ e.attributes.prerequisite)

\* A variant of best_edge_of: the first prerequisite edge as streamed.
best_edge_of_unsorted(prereq_edges) ==
    prereq_edges[1]

\* prereq_edges.sort(key=lambda e: e['weight'], reverse=True); prereq_edges[0]:
\* the sort is stable, edges of equal weight stay in streamed order.
best_edge_of(prereq_edges) ==
    LET heavier(k) == {j \in 1..Len(prereq_edges) :
                        prereq_edges[j].weight.num * prereq_edges[k].weight.den
                            > prereq_edges[k].weight.num * prereq_edges[j].weight.den}
    IN  stable_sort(prereq_edges,
                    [k \in 1..Len(prereq_edges) |-> Cardinality(heavier(k))])[1]

\* get_prerequisite_chain: the `for _ in range(max_depth)` loop.
RECURSIVE prerequisite_for_range(_, _, _, _)
prerequisite_for_range(prerequisites, visited, current, remaining) ==
    IF remaining <= 0 \/ prereq_edges_of(current) = <<>> THEN prerequisites
    ELSE LET prereq_id == best_edge_of(prereq_edges_of(current)).sourceEntityId
         IN  IF prereq_id \in visited \/ prereq_id \notin DOMAIN entities
             THEN prerequisites
             ELSE prerequisite_for_range(<<entities[prereq_id]>> \o prerequisites,
                                         visited \cup {prereq_id}, prereq_id,
                                         remaining - 1)

\* get_prerequisite_chain
get_prerequisite_chain(id, max_depth) ==
    prerequisite_for_range(<<>>, {id}, id, max_depth)

\* The entities whose incoming edges get_prerequisite_chain queried: the start,
\* then each entity of the chain while a round of the loop is left for it.
prerequisite_reads(id, max_depth) ==
    LET chain == get_prerequisite_chain(id, max_depth)
        n == Len(chain)
        rounds == IF n < max_depth THEN n + 1 ELSE max_depth
    IN  [i \in 1..rounds |-> IF i = 1 THEN id ELSE chain[n + 2 - i].id]

\* The largest max_depth asked of find_learning_path and get_prerequisite_chain.
MaxPathDepth ==
    4

\* The edges a learning graph is made of: the chain a -> b -> c -> d of
\* prerequisites, a weaker prerequisite a -> c, an edge back c -> a, a
\* prerequisite d -> b closing a cycle, a prerequisite a -> d as heavy as
\* c -> d, and a co-occurrence a - d.
LearningEdges ==
    {StoredEdge(TopicA, TopicB, "learning_pathway", 8, TRUE),
     StoredEdge(TopicB, TopicC, "learning_pathway", 8, TRUE),
     StoredEdge(TopicC, TopicD, "learning_pathway", 9, TRUE),
     StoredEdge(TopicA, TopicC, "learning_pathway", 5, TRUE),
     StoredEdge(TopicC, TopicA, "learning_pathway", 7, FALSE),
     StoredEdge(TopicD, TopicB, "learning_pathway", 9, TRUE),
     StoredEdge(TopicA, TopicD, "learning_pathway", 9, TRUE),
     StoredEdge(TopicA, TopicD, "temporal_cooccurrence", 10, TRUE)}

\* The entities stored: all four, or all but b.
LearningEntities ==
    {{TopicA, TopicB, TopicC, TopicD}, {TopicA, TopicC, TopicD}}

PathRequests ==
    [op : {"find_learning_path"},
     start_entity_id : {IdOf(TopicA)},
     target_entity_id : {IdOf(TopicA), IdOf(TopicC), IdOf(TopicD)},
     max_depth : 0..MaxPathDepth]

PrerequisiteRequests ==
    [op : {"get_prerequisite_chain"},
     entity_id : {IdOf(TopicC), IdOf(TopicD)},
     max_depth : 0..MaxPathDepth]

InitPaths ==
    /\ \E stored \in LearningEntities :
        entities = Collection({StoredEntity(item) : item \in stored})
    /\ \E present \in SUBSET LearningEdges :
        edges = Collection(present)
    /\ NoExtraction
    /\ request \in PathRequests \cup PrerequisiteRequests
    /\ response = NoResponse

FindLearningPath ==
    /\ request.op = "find_learning_path"
    /\ ~response.returned
    /\ response' = Returned(find_learning_path(request.start_entity_id,
                                               request.target_entity_id,
                                               request.max_depth))
    /\ reads' = path_traversal(request.start_entity_id, request.target_entity_id,
                               request.max_depth).expanded
    /\ UNCHANGED <<stores, conversations, locals, logs, now, sessions, request>>

GetPrerequisiteChain ==
    /\ request.op = "get_prerequisite_chain"
    /\ ~response.returned
    /\ response' = Returned(get_prerequisite_chain(request.entity_id, request.max_depth))
    /\ reads' = prerequisite_reads(request.entity_id, request.max_depth)
    /\ UNCHANGED <<stores, conversations, locals, logs, now, sessions, request>>

NextPaths ==
    \/ FindLearningPath
    \/ GetPrerequisiteChain

SpecPaths ==
    InitPaths /\ [][NextPaths]_vars

\* There is a stored learning_pathway edge from x to y.
LearningStep(x, y) ==
    \E id \in DOMAIN edges :
        /\ edges[id].edgeType = "learning_pathway"
        /\ edges[id].sourceEntityId = x
        /\ edges[id].targetEntityId = y

\* The entity IDs that occur in the graph.
GraphIds ==
    DOMAIN entities
        \cup {edges[id].sourceEntityId : id \in DOMAIN edges}
        \cup {edges[id].targetEntityId : id \in DOMAIN edges}

\* What a directed learning_pathway path of at most d hops from `start` reaches.
RECURSIVE LearnableWithin(_, _)
LearnableWithin(start, d) ==
    IF d = 0 THEN {start}
    ELSE LET near == LearnableWithin(start, d - 1)
         IN  near \cup {y \in GraphIds : \E x \in near : LearningStep(x, y)}

\* C16: find_learning_path returns a path exactly when the target is reachable
\* from the start by a directed learning_pathway path of at most maxDepth hops
\* (0 hops when start = target), and "no path" otherwise.
C16_PathFoundIffReachableWithinMaxDepth ==
    (request.op = "find_learning_path" /\ response.returned)
    => (response.value.found
            <=> request.target_entity_id
                    \in LearnableWithin(request.start_entity_id, request.max_depth))

\* C17: a returned path whose entities are all stored goes from the start to
\* the target along stored learning_pathway edges taken from source to target,
\* repeats no entity, and no directed learning_pathway path from the start to
\* the target has fewer hops.
C17_ReturnedPathIsShortestDirected ==
    (/\ request.op = "find_learning_path"
     /\ response.returned
     /\ response.value.found
     /\ EndpointsStored
     /\ request.start_entity_id \in DOMAIN entities)
    => LET path == response.value.entities
           hops == Len(path) - 1
       IN  /\ path # <<>>
           /\ path[1].id = request.start_entity_id
           /\ path[Len(path)].id = request.target_entity_id
           /\ \A k \in 1..Len(path) : path[k] = entities[path[k].id]
           /\ \A k \in 1..hops : LearningStep(path[k].id, path[k + 1].id)
           /\ \A j, k \in 1..Len(path) : j # k => path[j].id # path[k].id
           /\ \A d \in 0..(hops - 1) :
                request.target_entity_id \notin LearnableWithin(request.start_entity_id, d)

\* The path a -> b -> c was returned although c -> a is stored and the longer
\* way round is not needed: two hops, with the weaker direct edge a -> c absent.
C17_Witness ==
    /\ request.op = "find_learning_path"
    /\ response.returned
    /\ response.value.found
    /\ EndpointsStored
    /\ request.target_entity_id = IdOf(TopicD)
    /\ Len(response.value.entities) = 3
    /\ response.value.entities[2].id = IdOf(TopicC)
    /\ LearningStep(IdOf(TopicA), IdOf(TopicB))
    /\ LearningStep(IdOf(TopicB), IdOf(TopicC))
    /\ LearningStep(IdOf(TopicD), IdOf(TopicB))

\* The prerequisite edges into x: learning_pathway, attributes.prerequisite.
PrerequisiteEdgesInto(x) ==
    {id \in DOMAIN edges :
        /\ edges[id].edgeType = "learning_pathway"
        /\ edges[id].targetEntityId = x
        /\ edges[id].attributes.prerequisite}

\* p is the source of a prerequisite edge into x that no prerequisite edge into
\* x outweighs.
HeaviestPrerequisite(p, x) ==
    \E id \in PrerequisiteEdgesInto(x) :
        /\ edges[id].sourceEntityId = p
        /\ \A other \in PrerequisiteEdgesInto(x) :
            edges[id].weight.num * edges[other].weight.den
                >= edges[other].weight.num * edges[id].weight.den

\* `chain` (most fundamental first) is the greedy walk from x of at most
\* max_depth steps: walk[0] = x, walk[i] is the heaviest prerequisite of
\* walk[i-1] and was not visited before; the walk ended because max_depth steps
\* were made, or nothing is a prerequisite of its last entity, or the heaviest
\* one was visited already, or the heaviest one is in `stopping`.
IsGreedyWalk(chain, x, max_depth, stopping) ==
    LET n == Len(chain)
        walk(i) == IF i = 0 THEN x ELSE chain[n + 1 - i].id
    IN  /\ n <= max_depth
        /\ \A i \in 1..n :
            /\ HeaviestPrerequisite(walk(i), walk(i - 1))
            /\ \A j \in 0..(i - 1) : walk(j) # walk(i)
            /\ walk(i) \notin stopping
            /\ chain[n + 1 - i] = entities[walk(i)]
        /\ \/ n = max_depth
           \/ PrerequisiteEdgesInto(walk(n)) = {}
           \/ \E p \in GraphIds :
                /\ HeaviestPrerequisite(p, walk(n))
                /\ \/ \E j \in 0..n : walk(j) = p
                   \/ p \in stopping

ClusterMinWeight ==
    6

\* top_entities: sorted(...)[:3]
LabelSize ==
    3

\* _get_entities_by_types: one query per type, in the order of the types.
RECURSIVE get_entities_by_types(_)
get_entities_by_types(entity_types) ==
    IF entity_types = <<>> THEN <<>>
    ELSE SelectSeq(stream(entities), LAMBDA e : e.type = Head(entity_types))
            \o get_entities_by_types(Tail(entity_types))

\* The elements of a set of IDs, listed in the order of the IDs (the order in
\* which Python iterates over a set is not specified; the clusters do not
\* depend on it).
listed(ids) ==
    LET pos(x) == 1 + Cardinality({y \in ids : StrLess(y, x)})
    IN  [p \in 1..Cardinality(ids) |-> CHOOSE x \in ids : pos(x) = p]

\* A variant of adjacency: each edge is entered from its source only.
adjacency_from_source(entity_ids, edge_list, x) ==
    {edge_list[k].targetEntityId : k \in
        {j \in 1..Len(edge_list) :
            /\ edge_list[j].sourceEntityId \in entity_ids
            /\ edge_list[j].targetEntityId \in entity_ids
            /\ edge_list[j].sourceEntityId = x}}

\* adjacency.get(x, set()): the other ends of the edges of x whose two ends are
\* interest/topic entities.
adjacency(entity_ids, edge_list, x) ==
    {neighbor_of(edge_list[k], x) : k \in
        {j \in 1..Len(edge_list) :
            /\ edge_list[j].sourceEntityId \in entity_ids
            /\ edge_list[j].targetEntityId \in entity_ids
            /\ x \in {edge_list[j].sourceEntityId, edge_list[j].targetEntityId}}}

\* The `while stack` loop: depth-first search of one connected component.
RECURSIVE component_while_stack(_, _, _, _, _)
component_while_stack(stack, visited, component, entity_ids, edge_list) ==
    IF stack = <<>> THEN [visited |-> visited, component |-> component]
    ELSE LET current == stack[Len(stack)]
             rest == SubSeq(stack, 1, Len(stack) - 1)
         IN  IF current \in visited
             THEN component_while_stack(rest, visited, component, entity_ids, edge_list)
             ELSE component_while_stack(
                     rest \o listed(adjacency(entity_ids, edge_list, current)
                                        \ (visited \cup {current})),
                     visited \cup {current}, Append(component, current),
                     entity_ids, edge_list)

\* " & ".join(names)
RECURSIVE joined(_)
joined(names) ==
    IF names = <<>> THEN <<>>
    ELSE IF Len(names) = 1 THEN names[1]
    ELSE names[1] \o <<" ", "&", " ">> \o joined(Tail(names))

\* str(cluster_id)
RECURSIVE str(_)
str(n) ==
    LET digit == <<"0", "1", "2", "3", "4", "5", "6", "7", "8", "9">>[(n % 10) + 1]
    IN  IF n < 10 THEN <<digit>> ELSE str(n \div 10) \o <<digit>>

\* The cluster dict appended for a component.
cluster_of(component, entity_list, cluster_id) ==
    LET cluster_entities ==
            SelectSeq(entity_list,
                      LAMBDA e : \E k \in 1..Len(component) : component[k] = e.id)
        by_strength ==
            stable_sort(cluster_entities,
                        [k \in 1..Len(cluster_entities) |-> 0 - cluster_entities[k].strength])
        top_entities == Prefix(by_strength, LabelSize)
    IN  [clusterId |-> <<"cluster", "_">> \o str(cluster_id),
         label |-> joined([k \in 1..Len(top_entities) |-> top_entities[k].name]),
         size |-> Len(component),
         entities |-> cluster_entities]

\* The `for entity in entities` loop.
RECURSIVE clusters_for_entities(_, _, _, _, _, _, _)
clusters_for_entities(remaining, visited, clusters, cluster_id, entity_list, edge_list, min_cluster_size) ==
    IF remaining = <<>> THEN clusters
    ELSE IF Head(remaining).id \in visited
    THEN clusters_for_entities(Tail(remaining), visited, clusters, cluster_id,
                               entity_list, edge_list, min_cluster_size)
    ELSE LET found == component_while_stack(<<Head(remaining).id>>, visited, <<>>,
                                            Ids(entity_list), edge_list)
         IN  IF Len(found.component) >= min_cluster_size
             THEN clusters_for_entities(
                     Tail(remaining), found.visited,
                     Append(clusters, cluster_of(found.component, entity_list, cluster_id)),
                     cluster_id + 1, entity_list, edge_list, min_cluster_size)
             ELSE clusters_for_entities(Tail(remaining), found.visited, clusters,
                                        cluster_id, entity_list, edge_list,
                                        min_cluster_size)

\* find_interest_clusters
find_interest_clusters(min_cluster_size) ==
    LET entity_list == get_entities_by_types(<<"interest", "topic">>)
        edge_list == SelectSeq(stream(edges), LAMBDA e : /\ e.edgeType = "temporal_cooccurrence"
                                             /\ weight_at_least(e.weight, ClusterMinWeight))
    IN  IF Len(entity_list) < min_cluster_size THEN <<>>
        ELSE clusters_for_entities(entity_list, {}, <<>>, 0, entity_list, edge_list,
                                   min_cluster_size)

\* The largest min_cluster_size asked for.
MaxClusterSize ==
    3

InterestA ==
    Item("interests", NameA, 9, <<"A">>)

InterestB ==
    Item("interests", NameB, 7, <<"B">>)

SkillA ==
    Item("skills", NameA, 8, <<"a">>)

\* The edges a clustered graph is made of: co-occurrences at, above and below
\* 0.6, an edge of another type, and co-occurrences with a skill.
ClusterEdges ==
    {StoredEdge(InterestA, TopicA, "temporal_cooccurrence", 6, FALSE),
     StoredEdge(TopicA, TopicB, "temporal_cooccurrence", 8, FALSE),
     StoredEdge(InterestB, TopicB, "temporal_cooccurrence", 5, FALSE),
     StoredEdge(InterestA, InterestB, "learning_pathway", 9, FALSE),
     StoredEdge(InterestB, SkillA, "temporal_cooccurrence", 9, FALSE),
     StoredEdge(SkillA, TopicB, "temporal_cooccurrence", 9, FALSE),
     StoredEdge(TopicA, InterestB, "temporal_cooccurrence", 7, FALSE),
     StoredEdge(TopicB, InterestA, "temporal_cooccurrence", 9, FALSE)}

\* The entities stored.
ClusterEntities ==
    {{InterestA, InterestB, TopicA, TopicB, SkillA},
     {InterestA, TopicA, TopicB, SkillA},
     {InterestB, SkillA},
     {}}

ClusterRequests ==
    [op : {"find_interest_clusters"}, min_cluster_size : 0..MaxClusterSize]

InitClusters ==
    /\ \E stored \in ClusterEntities :
        entities = Collection({StoredEntity(item) : item \in stored})
    /\ \E present \in SUBSET ClusterEdges :
        edges = Collection(present)
    /\ NoExtraction
    /\ request \in ClusterRequests
    /\ response = NoResponse

FindInterestClusters ==
    /\ request.op = "find_interest_clusters"
    /\ ~response.returned
    /\ response' = Returned(find_interest_clusters(request.min_cluster_size))
    /\ UNCHANGED <<stores, conversations, locals, logs, now, sessions, request, reads>>

NextClusters ==
    FindInterestClusters

SpecClusters ==
    InitClusters /\ [][NextClusters]_vars

\* The stored entities of type interest or topic.
InterestNodes ==
    {id \in DOMAIN entities : entities[id].type \in {"interest", "topic"}}

\* x and y are interest/topic entities joined by a temporal_cooccurrence edge of
\* weight >= 0.6.
CoOccur(x, y) ==
    /\ x \in InterestNodes /\ y \in InterestNodes
    /\ \E id \in DOMAIN edges :
        /\ edges[id].edgeType = "temporal_cooccurrence"
        /\ edges[id].weight.num * 10 >= 6 * 10 * edges[id].weight.den
        /\ {edges[id].sourceEntityId, edges[id].targetEntityId} = {x, y}

\* The entities connected to x by at most n co-occurrence edges.
RECURSIVE ConnectedWithin(_, _)
ConnectedWithin(x, n) ==
    IF n = 0 THEN {x}
    ELSE LET near == ConnectedWithin(x, n - 1)
         IN  near \cup {y \in InterestNodes : \E z \in near : CoOccur(z, y)}

\* The connected components of the interest graph.
Components ==
    {ConnectedWithin(x, Cardinality(InterestNodes)) : x \in InterestNodes}

\* C19: the clusters returned are exactly the connected components with at
\* least minClusterSize entities of the graph of interest/topic entities and
\* temporal_cooccurrence edges of weight >= 0.6 between them, each once, with
\* size the number of its entities; smaller components are not returned.
C19_ClustersAreLargeComponents ==
    (request.op = "find_interest_clusters" /\ response.returned)
    => LET clusters == response.value
           members(k) == Ids(clusters[k].entities)
       IN  /\ {members(k) : k \in 1..Len(clusters)}
                = {c \in Components : Cardinality(c) >= request.min_cluster_size}
           /\ \A j, k \in 1..Len(clusters) : j # k => members(j) \cap members(k) = {}
           /\ \A k \in 1..Len(clusters) :
                /\ clusters[k].size = Cardinality(members(k))
                /\ clusters[k].size = Len(clusters[k].entities)
                /\ \A i \in 1..Len(clusters[k].entities) :
                    clusters[k].entities[i] = entities[clusters[k].entities[i].id]

\* With minClusterSize 2, a cluster of three entities was returned and the
\* isolated interest b was not, its only co-occurrences being below 0.6 or
\* with a skill.
C19_Witness ==
    /\ request.op = "find_interest_clusters"
    /\ response.returned
    /\ request.min_cluster_size = 2
    /\ IdOf(InterestB) \in InterestNodes
    /\ {IdOf(InterestB)} \in Components
    /\ \E id \in DOMAIN edges : edges[id].sourceEntityId = IdOf(InterestB)
    /\ Len(response.value) = 1
    /\ response.value[1].size = 3

\* What a path of at most d edges of weight >= 0.7, taken in either direction,
\* reaches from x.
RECURSIVE HeavyWithin(_, _)
HeavyWithin(x, d) ==
    IF d = 0 THEN {x}
    ELSE LET near == HeavyWithin(x, d - 1)
         IN  near \cup {y \in GraphIds :
                \E id \in DOMAIN edges :
                    /\ edges[id].weight.num >= 7 * edges[id].weight.den
                    /\ \E z \in near :
                        {edges[id].sourceEntityId, edges[id].targetEntityId} = {z, y}}

\* The flags and the members of the subgraph returned for the seed x.
SeedFlagged(x) ==
    LET returned == response.value.entities
    IN  /\ \E k \in 1..Len(returned) : returned[k].id = x /\ returned[k].isSeed
        /\ \A k \in 1..Len(returned) : returned[k].id # x => ~returned[k].isSeed
        /\ \A k \in 1..Len(returned) :
            (returned[k].id # x /\ returned[k].id \in HeavyWithin(x, 1))
                => returned[k].isSeed = FALSE
        /\ \A k \in 1..Len(returned) : returned[k].id \in HeavyWithin(x, request.depth)

\* C20 as stated: for any graph and any call with seeds [X], maxEntities and
\* depth >= 1, the result holds X with isSeed = true, every other returned
\* entity (the neighbours of X by edges of weight >= 0.7 among them) with
\* isSeed = false, and no entity that only edges of weight < 0.7 lead to.
C20_SeedFlaggedInContextSubgraph ==
    (/\ request.op = "extract_context_subgraph"
     /\ response.returned
     /\ request.depth >= 1)
    => SeedFlagged(request.seed_entities[1])

\* C20 amended: the same for a stored seed X and maxEntities >= 1.
C20_StoredSeedFlaggedInContextSubgraph ==
    (/\ request.op = "extract_context_subgraph"
     /\ response.returned
     /\ request.depth >= 1
     /\ request.seed_entities[1] \in DOMAIN entities
     /\ request.max_entities >= 1)
    => SeedFlagged(request.seed_entities[1])

\* The seed a was returned flagged, its neighbours b (0.8) and d (0.7) were
\* returned unflagged, and c, joined to a by an edge of weight 0.4 only, was not
\* returned.
C20_Witness ==
    /\ request.op = "extract_context_subgraph"
    /\ response.returned
    /\ request.depth = 1
    /\ Len(response.value.entities) = 3
    /\ response.value.entities[1].id = IdOf(TopicA) /\ response.value.entities[1].isSeed
    /\ \E k \in 2..3 : /\ response.value.entities[k].id = IdOf(TopicB)
                       /\ ~response.value.entities[k].isSeed
    /\ \E k \in 2..3 : /\ response.value.entities[k].id = IdOf(TopicD)
                       /\ ~response.value.entities[k].isSeed
    /\ IdOf(TopicC) \in DOMAIN entities
    /\ \E id \in DOMAIN edges :
        /\ edges[id].sourceEntityId = IdOf(TopicA)
        /\ edges[id].targetEntityId = IdOf(TopicC)
        /\ edges[id].weight = AsWeight(4)

(***************************************************************************)
(* The traversals on graphs with cycles, self-loops and two-way edges      *)
(***************************************************************************)

\* The edges a cyclic graph is made of: a self-loop on a, a -> b and b -> a,
\* the cycle a -> b -> c -> a, and a co-occurrence a - c.
CycleEdges ==
    {StoredEdge(TopicA, TopicA, "learning_pathway", 8, TRUE),
     StoredEdge(TopicA, TopicB, "learning_pathway", 8, TRUE),
     StoredEdge(TopicB, TopicA, "learning_pathway", 9, TRUE),
     StoredEdge(TopicB, TopicC, "learning_pathway", 8, TRUE),
     StoredEdge(TopicC, TopicA, "learning_pathway", 7, TRUE),
     StoredEdge(TopicA, TopicC, "temporal_cooccurrence", 9, FALSE)}

\* The entities stored: all three, or all but c.
CycleEntities ==
    {{TopicA, TopicB, TopicC}, {TopicA, TopicB}}

\* The seed lists asked for: one seed, a repeated seed, two and three seeds.
SeedLists ==
    {<<IdOf(TopicA)>>, <<IdOf(TopicA), IdOf(TopicA)>>, <<IdOf(TopicA), IdOf(TopicB)>>,
     <<IdOf(TopicC), IdOf(TopicB), IdOf(TopicA)>>}

CycleRequests ==
    [op : {"get_related_entities"},
     entity_id : {IdOf(TopicA)},
     max_depth : 0..MaxDepth,
     edge_types : {AnyType, OnlyTypes({"learning_pathway"})},
     min_weight : {5}]
    \cup [op : {"extract_context_subgraph"},
          seed_entities : SeedLists,
          max_entities : 0..MaxEntities,
          depth : 0..(MaxDepth - 1)]
    \cup [op : {"find_learning_path"},
          start_entity_id : {IdOf(TopicA)},
          target_entity_id : {IdOf(TopicA), IdOf(TopicC)},
          max_depth : 0..MaxPathDepth]
    \cup [op : {"get_prerequisite_chain"},
          entity_id : {IdOf(TopicA), IdOf(TopicC)},
          max_depth : 0..MaxPathDepth]

InitCycles ==
    /\ \E stored \in CycleEntities :
        entities = Collection({StoredEntity(item) : item \in stored})
    /\ \E present \in SUBSET CycleEdges :
        edges = Collection(present)
    /\ NoExtraction
    /\ request \in CycleRequests
    /\ response = NoResponse

NextCycles ==
    \/ GetRelatedEntities
    \/ ExtractContextSubgraph
    \/ FindLearningPath
    \/ GetPrerequisiteChain

SpecCycles ==
    InitCycles /\ [][NextCycles]_vars

\* C21: a traversal that has returned (get_related_entities,
\* extract_context_subgraph, find_learning_path, get_prerequisite_chain, on a
\* graph with cycles, self-loops and two-way edges) fetched the edges of no
\* entity twice, so it made at most as many fetches as there are entities.
C21_TraversalExpandsNoEntityTwice ==
    response.returned
    => \A j, k \in 1..Len(reads) : j # k => reads[j] # reads[k]

(***************************************************************************)
(* Extraction runs of a conversation that was extracted before             *)
(***************************************************************************)

\* The number of extraction runs, first runs and repeated ones together.
MaxRuns ==
    3

\* The latest time on the clock.
MaxClock ==
    1

OutputsRerun ==
    {OutAB, OutLow}

\* end_conversation is run once more for a conversation it was run for before
\* (end_session read the session before another caller deleted it): a second
\* extraction thread starts for the same conversation_id.
RestartExtraction(r, outputs, max_conversations, single_writer) ==
    /\ pc[r] = "idle"
    /\ \A q \in Threads : q < r => pc[q] # "idle"
    /\ conversations < max_conversations
    /\ single_writer => \A q \in Threads : pc[q] = "idle"
    /\ \E data \in outputs :
        /\ extracted' = [extracted EXCEPT ![r] = data]
        /\ pc' = [pc EXCEPT ![r] = pc_at_entity(data, 1)]
    /\ \E conversation_id \in 1..conversations :
        conversation' = [conversation EXCEPT ![r] = conversation_id]
    /\ conversations' = conversations + 1
    /\ ei' = [ei EXCEPT ![r] = 1]
    /\ ri' = [ri EXCEPT ![r] = 1]
    /\ UNCHANGED <<calls, now, sessions, stores, logs, entities_map, snapshot>>

\* A second passes.
Tick ==
    /\ now < MaxClock
    /\ now' = now + 1
    /\ UNCHANGED <<calls, sessions, stores, conversations, locals, logs>>

\* One extraction at a time; a conversation may be extracted again.
NextRerun ==
    \/ \E r \in Threads :
        \/ StartExtraction(r, OutputsRerun, MaxRuns, TRUE)
        \/ RestartExtraction(r, OutputsRerun, MaxRuns, TRUE)
        \/ ExtractionFails(r, MaxRuns, TRUE)
        \/ Step(r)
    \/ Tick

SpecRerun ==
    Init /\ [][NextRerun]_vars

\* The conversations whose merges the log of an entity holds.
Contributors(id) ==
    {log_of(entity_log, id)[k].conversationId : k \in 1..Len(log_of(entity_log, id))}

\* C22: with one extraction at a time, every stored entity has mentionCount =
\* the number of merges (confidence >= 0.7) made into it and conversationCount
\* = the number of distinct conversations among those merges.
C22_CountersCountMergesAndConversations ==
    \A id \in DOMAIN entities :
        /\ entities[id].mentionCount = Len(log_of(entity_log, id))
        /\ entities[id].conversationCount = Cardinality(Contributors(id))

\* The stored edges that have entity id as source or target.
IncidentEdges(id) ==
    {e \in DOMAIN edges : id \in {edges[e].sourceEntityId, edges[e].targetEntityId}}

\* The stored edges of a directed type (every type but temporal_cooccurrence).
DirectedEdges ==
    {e \in DOMAIN edges : edges[e].edgeType # "temporal_cooccurrence"}

\* C23: when no extraction is running, the edgeStats of every stored entity E
\* count the stored edges: totalEdges those with E as source or target,
\* incomingEdges the directed ones targeting E, outgoingEdges the directed ones
\* sourced at E, and temporalCooccurrence, learningPathway and
\* emotionalAssociation the incident edges of each type.
C23_EdgeStatsCountStoredEdges ==
    AllIdle
    => \A id \in DOMAIN entities :
        LET stats == entities[id].edgeStats
            of_type(edge_type) == {e \in IncidentEdges(id) : edges[e].edgeType = edge_type}
        IN  /\ stats.totalEdges = Cardinality(IncidentEdges(id))
            /\ stats.incomingEdges
                = Cardinality({e \in DirectedEdges : edges[e].targetEntityId = id})
            /\ stats.outgoingEdges
                = Cardinality({e \in DirectedEdges : edges[e].sourceEntityId = id})
            /\ stats.temporalCooccurrence = Cardinality(of_type("temporal_cooccurrence"))
            /\ stats.learningPathway = Cardinality(of_type("learning_pathway"))
            /\ stats.emotionalAssociation = Cardinality(of_type("emotional_association"))

(***************************************************************************)
(* _update_summary over stores of many entities                            *)
(***************************************************************************)

\* The names of the entities a summarised store is made of; in Python's order
\* "1" < "Bb" < "a" < "ab" < "b" < "ba".
SummaryNames ==
    <<<<"a">>, <<"b">>, <<"1">>, <<"a", "b">>, <<"b", "a">>, <<"B", "b">>>>

\* The stored entity of type etype named SummaryNames[k], after
\* SummaryCounts[k] merges of which the strongest had confidence
\* SummaryStrengths[k].
SummaryEntity(etype, k) ==
    LET SummaryCounts == <<3, 1, 3, 2, 5, 4>>
        SummaryStrengths == <<7, 9, 8, 9, 10, 7>>
    IN  [StoredEntity(Item(etype, SummaryNames[k], SummaryStrengths[k], <<"!">>))
            EXCEPT !.mentionCount = SummaryCounts[k]]

\* One more entity of each type.
OtherEntities ==
    {StoredEntity(Item(etype, <<"1", "1">>, 8, <<"!">>)) :
        etype \in {"topics", "skills", "interests", "concepts", "personality_traits"}}

\* An extraction run whose LLM answer listed nothing has written its
\* observation and is about to recompute the summary; the store holds up to
\* seven entities of one type and entities of the other types.
InitSummary ==
    /\ \E etype \in {"topics", "skills", "interests"} :
       \E chosen \in SUBSET (1..Len(SummaryNames)) :
       \E others \in SUBSET OtherEntities :
            entities = Collection({SummaryEntity(etype, k) : k \in chosen} \cup others)
    /\ edges = <<>>
    /\ observations = (observation_id(1, 0) :> observation_doc(1, 0, <<>>))
    /\ summary = <<>>
    /\ conversations = 1
    /\ pc = [r \in Threads |-> IF r = 1 THEN "summary_read" ELSE "idle"]
    /\ conversation = [r \in Threads |-> IF r = 1 THEN 1 ELSE 0]
    /\ extracted = [r \in Threads |-> NoData]
    /\ ei = [r \in Threads |-> IF r = 1 THEN 1 ELSE 0]
    /\ ri = [r \in Threads |-> IF r = 1 THEN 1 ELSE 0]
    /\ entities_map = [r \in Threads |-> <<>>]
    /\ snapshot = [r \in Threads |-> NoSnapshot]
    /\ entity_log = <<>>
    /\ edge_log = <<>>
    /\ request = NoRequest
    /\ response = NoResponse
    /\ reads = <<>>
    /\ now = 0
    /\ NoSessions

NextSummary ==
    \E r \in Threads :
        \/ ReadEntities(r)
        \/ WriteSummary(r)

SpecSummary ==
    InitSummary /\ [][NextSummary]_vars

\* The stored entities of a type.
OfType(t) ==
    {id \in DOMAIN entities : entities[id].type = t}

\* `top` lists min(5, number of candidates) distinct candidates in ascending
\* order of key[id], and no candidate left out has a smaller key than a listed
\* one.
IsTopFive(top, candidates, key) ==
    /\ Len(top) = (IF Cardinality(candidates) < 5 THEN Cardinality(candidates) ELSE 5)
    /\ \A k \in 1..Len(top) : top[k].id \in candidates
    /\ \A j, k \in 1..Len(top) : j # k => top[j].id # top[k].id
    /\ \A j, k \in 1..Len(top) : j < k => key[top[j].id] <= key[top[k].id]
    /\ \A x \in candidates \ {top[k].id : k \in 1..Len(top)} :
        \A k \in 1..Len(top) : key[top[k].id] <= key[x]

\* The number of stored entities whose name comes before the name of id in
\* Python's string order.
NamesBefore(id) ==
    Cardinality({n \in {entities[x].name : x \in DOMAIN entities} :
                    StrLess(n, entities[id].name)})

\* C24: when a run has completed with no other run in flight, the summary
\* holds the counts over the stored entities (all, and per type), topTopics =
\* the at-most-5 topics of highest mentionCount in descending order, topSkills
\* = the first at-most-5 skills in ascending order of name, topInterests = the
\* at-most-5 interests of highest strength in descending order.
C24_SummaryIsRecomputedFromStore ==
    (AllIdle /\ summary # <<>>)
    => /\ summary.stats.totalEntities = Cardinality(DOMAIN entities)
       /\ summary.stats.topicsCount = Cardinality(OfType("topic"))
       /\ summary.stats.skillsCount = Cardinality(OfType("skill"))
       /\ summary.stats.interestsCount = Cardinality(OfType("interest"))
       /\ summary.stats.conceptsCount = Cardinality(OfType("concept"))
       /\ summary.stats.traitsCount = Cardinality(OfType("personality_trait"))
       /\ IsTopFive(summary.topTopics, OfType("topic"),
                    [id \in DOMAIN entities |-> 0 - entities[id].mentionCount])
       /\ \A k \in 1..Len(summary.topTopics) :
            /\ summary.topTopics[k].count = entities[summary.topTopics[k].id].mentionCount
            /\ summary.topTopics[k].name = entities[summary.topTopics[k].id].name
       /\ IsTopFive(summary.topSkills, OfType("skill"),
                    [id \in DOMAIN entities |-> NamesBefore(id)])
       /\ \A k \in 1..Len(summary.topSkills) :
            summary.topSkills[k].name = entities[summary.topSkills[k].id].name
       /\ IsTopFive(summary.topInterests, OfType("interest"),
                    [id \in DOMAIN entities |-> 0 - entities[id].strength])
       /\ \A k \in 1..Len(summary.topInterests) :
            /\ summary.topInterests[k].strength
                = entities[summary.topInterests[k].id].strength
            /\ summary.topInterests[k].name = entities[summary.topInterests[k].id].name

\* Seven topics are stored; the summary lists five of them, the one merged five
\* times first, and neither of the two that were merged once.
C24_Witness ==
    /\ AllIdle
    /\ summary # <<>>
    /\ summary.stats.topicsCount = 7
    /\ Len(summary.topTopics) = 5
    /\ summary.topTopics[1].count = 5
    /\ summary.topTopics[5].count > 1
    /\ summary.stats.conceptsCount = 1

\* C25: whatever the interleaving of the extraction runs, once no run is in
\* flight the stored summary is the recomputation over the entity store as it
\* stands: its counts include every entity created by any of the runs.
C25_SummaryMatchesStoreAfterConcurrentRuns ==
    (AllIdle /\ summary # <<>>)
    => /\ summary = summary_doc(stream(entities))
       /\ summary.stats.totalEntities = Cardinality(DOMAIN entities)

\* C26: every step leaves the stored observation documents as they are, and
\* the step of a run that writes its observation adds one document, so there
\* are as many observation documents as runs that got so far.
C26_ObservationsAreWriteOnce ==
    [][/\ \A id \in DOMAIN observations :
            id \in DOMAIN observations' /\ observations'[id] = observations[id]
       /\ \A r \in Threads :
            (pc[r] = "observation" /\ pc'[r] # "observation")
                => Cardinality(DOMAIN observations')
                    = Cardinality(DOMAIN observations) + 1]_vars

(***************************************************************************)
(* gemini_reply: the entities an utterance mentions                         *)
(***************************************************************************)

\* {"limit": 50}
DetectionLimit ==
    50

\* mentioned[:5]
MentionLimit ==
    5

\* mentioned_entities[:3]
SeedLimit ==
    3

\* extract_context_subgraph(..., max_entities=10, depth=1)
RelatedMaxEntities ==
    10

RelatedDepth ==
    1

\* A Python list: it has no method get().
PyList(items) ==
    [kind |-> "list", items |-> items]

\* s[::-1]
Reversed(s) ==
    [k \in 1..Len(s) |-> s[Len(s) + 1 - k]]

\* KnowledgeGraphService.get_entities with filters {"type": ..., "limit": ...}:
\* the entities of the type by strength, strongest first (documents of equal
\* strength in descending order of ID), cut at the limit, returned as a list.
get_entities(entity_type, limit) ==
    LET matching == Reversed(SelectSeq(stream(entities), LAMBDA e : e.type = entity_type))
        ordered == stable_sort(matching, [k \in 1..Len(matching) |-> 0 - matching[k].strength])
    IN  PyList(Prefix(ordered, limit))

\* `name_lower in message_lower`
is_in(part, whole) ==
    \E k \in 0..(Len(whole) - Len(part)) : SubSeq(whole, k + 1, k + Len(part)) = part

\* _detect_mentioned_entities, the loop over the four types: result.get(...)
\* raises AttributeError when result is a list.
RECURSIVE all_entities_of(_, _)
all_entities_of(entity_types, all_entities) ==
    IF entity_types = <<>> THEN [raised |-> FALSE, value |-> all_entities]
    ELSE LET result == get_entities(Head(entity_types), DetectionLimit)
         IN  IF result.kind # "dict" THEN [raised |-> TRUE, value |-> <<>>]
             ELSE all_entities_of(
                     Tail(entity_types),
                     IF "entities" \in DOMAIN result.items /\ result.items["entities"] # <<>>
                     THEN all_entities \o result.items["entities"]
                     ELSE all_entities)

\* _detect_mentioned_entities: an exception is caught and [] returned.
detect_mentioned_entities(message) ==
    IF message = <<>> THEN <<>>
    ELSE LET found == all_entities_of(<<"topic", "interest", "skill", "concept">>, <<>>)
         IN  IF found.raised THEN <<>>
             ELSE Prefix(SelectSeq(found.value,
                                   LAMBDA e : is_in(lower(e.name), lower(message))),
                         MentionLimit)

\* _build_knowledge_context, steps 1 and 2: the mentions detected and, when
\* there are any, the subgraph extracted from the first three of them.
build_knowledge_context(current_message) ==
    LET mentioned_entities == detect_mentioned_entities(current_message)
        first == Prefix(mentioned_entities, SeedLimit)
        seed_ids == [k \in 1..Len(first) |-> first[k].id]
    IN  [mentioned |-> mentioned_entities,
         subgraph_called |-> mentioned_entities # <<>>,
         seed_ids |-> seed_ids,
         subgraph |-> IF mentioned_entities # <<>>
                      THEN extract_context_subgraph(seed_ids, RelatedMaxEntities,
                                                    RelatedDepth)
                      ELSE <<>>]

\* The entities the utterances are matched against.
MentionEntities ==
    {StoredEntity(Item("topics", NameA, 9, <<"A">>)),
     StoredEntity(Item("topics", <<"B", "b">>, 8, <<"B">>)),
     StoredEntity(Item("interests", NameB, 8, <<"b">>)),
     StoredEntity(Item("skills", <<"1">>, 7, <<"1">>)),
     StoredEntity(Item("concepts", <<"a", "b">>, 7, <<"a">>)),
     StoredEntity(Item("personality_traits", NameA, 9, <<"a">>))}

\* The utterances: "", "a", "A b", "1 bb!", "ab 1".
Utterances ==
    {<<>>, <<"a">>, <<"A", " ", "b">>, <<"1", " ", "b", "b", "!">>,
     <<"a", "b", " ", "1">>}

InitContext ==
    /\ \E stored \in SUBSET MentionEntities : entities = Collection(stored)
    /\ edges \in {<<>>, Collection({StoredEdge(Item("topics", NameA, 9, <<"A">>),
                                              Item("interests", NameB, 8, <<"b">>),
                                              "emotional_association", 8, FALSE)})}
    /\ NoExtraction
    /\ request \in [op : {"build_knowledge_context"}, current_message : Utterances]
    /\ response = NoResponse

BuildKnowledgeContext ==
    /\ request.op = "build_knowledge_context"
    /\ ~response.returned
    /\ response' = Returned(build_knowledge_context(request.current_message))
    /\ UNCHANGED <<stores, conversations, locals, logs, now, sessions, request, reads>>

NextContext ==
    BuildKnowledgeContext

SpecContext ==
    InitContext /\ [][NextContext]_vars

\* The stored topics, interests, skills and concepts whose name the utterance
\* contains, case-insensitively.
MentionedIn(message) ==
    {id \in DOMAIN entities :
        /\ entities[id].type \in {"topic", "interest", "skill", "concept"}
        /\ is_in(lower(entities[id].name), lower(message))}

\* C27: when the utterance contains the name of a stored topic, interest, skill
\* or concept, the context builder has detected a mention and has called
\* extract_context_subgraph with seeds that are such entities: all of them when
\* there are at most three, three of them otherwise.
C27_MentionedEntityIsSeed ==
    (/\ request.op = "build_knowledge_context"
     /\ response.returned
     /\ MentionedIn(request.current_message) # {})
    => LET mentioned == MentionedIn(request.current_message)
           seeds == {response.value.seed_ids[k] : k \in 1..Len(response.value.seed_ids)}
       IN  /\ response.value.mentioned # <<>>
           /\ response.value.subgraph_called
           /\ seeds \subseteq mentioned
           /\ Cardinality(seeds)
                = (IF Cardinality(mentioned) < 3 THEN Cardinality(mentioned) ELSE 3)

\* C29: in the subgraph extract_context_subgraph returns, for any graph and any
\* seed list (longer than maxEntities, or with a repeated seed), every edge has
\* both ends among the returned entities and no entity is returned twice.
C29_ContextSubgraphIsClosedAndDuplicateFree ==
    (request.op = "extract_context_subgraph" /\ response.returned)
    => LET returned == response.value.entities
           returned_edges == response.value.edges
       IN  /\ \A k \in 1..Len(returned_edges) :
                /\ returned_edges[k].sourceEntityId \in Ids(returned)
                /\ returned_edges[k].targetEntityId \in Ids(returned)
           /\ \A j, k \in 1..Len(returned) : j # k => returned[j].id # returned[k].id

(***************************************************************************)
(* SessionManager and FirestoreService.end_conversation                     *)
(***************************************************************************)

\* SESSION_INACTIVITY_TIMEOUT, in seconds.
INACTIVITY_TIMEOUT_SECONDS ==
    120

\* `if total_message_count >= 4`
MinMessagesForExtraction ==
    4

\* SERVER_START_TIME
SERVER_START_TIME ==
    0

\* The messages array of a conversation of n messages.
Messages(n) ==
    [k \in 1..n |-> "message"]

\* create_conversation: the document of a conversation created at `time`.
new_conversation(time) ==
    [status |-> "active", startTime |-> time, lastActivityAt |-> time,
     messageCount |-> 0, messages |-> <<>>]

\* _create_new_session: session_data.
new_session_data(conversation_id, current_time) ==
    [session_id |-> conversation_id, conversation_id |-> conversation_id,
     start_time |-> current_time, last_activity |-> current_time, message_count |-> 0]

\* _load_session_into_memory: session_data.
loaded_session_data(conversation_id, firestore_session) ==
    [session_id |-> conversation_id, conversation_id |-> conversation_id,
     start_time |-> firestore_session.startTime,
     last_activity |-> firestore_session.lastActivityAt,
     message_count |-> firestore_session.messageCount]

\* is_session_expired
is_session_expired(session_id) ==
    \/ session_id \notin DOMAIN conversation_docs
    \/ conversation_docs[session_id].status # "active"
    \/ now - conversation_docs[session_id].lastActivityAt > INACTIVITY_TIMEOUT_SECONDS

\* get_active_conversation_for_toy: the IDs the query matches.
active_conversations ==
    {c \in DOMAIN conversation_docs : conversation_docs[c].status = "active"}

\* Where a caller goes on when end_session has returned.
after_end_session(k) ==
    CASE k = "explicit" -> "done"
      [] k = "get_or_create" -> "create_session"
      [] k = "cleanup" -> "cleanup_next"

\* Where a caller goes on when end_session has raised: the cleanup task
\* catches the exception, the request handlers answer with an error.
after_exception(k) ==
    IF k = "cleanup" THEN "done" ELSE "raised"

\* list(self.ACTIVE_CONVERSATIONS.items()) restricted to the IDs `ids`: a dict
\* keeps the order of insertion, which is the order of the IDs.
listed_numbers(ids) ==
    LET pos(x) == 1 + Cardinality({y \in ids : y < x})
    IN  [p \in 1..Cardinality(ids) |-> CHOOSE x \in ids : pos(x) = p]

\* The threads started so far with the given target.
started(target) ==
    SelectSeq(threads_started, LAMBDA t : t.target = target)

\* POST of the end-conversation endpoint: end_session(session_id, ...,
\* reason="explicit").
ExplicitEndRequest ==
    /\ session_pc["explicit"] = "idle"
    /\ \E session_id \in DOMAIN ACTIVE_CONVERSATIONS :
        session_local' = [session_local EXCEPT !["explicit"].session_id = session_id]
    /\ session_pc' = [session_pc EXCEPT !["explicit"] = "end_session"]
    /\ UNCHANGED <<stores, conversations, locals, logs, calls, now, ACTIVE_CONVERSATIONS,
                   conversation_docs, threads_started>>

\* get_or_create_session, step 1: the cache is searched for a session whose
\* 'device_id' equals the device; session_data has no such key.
GetOrCreateSession ==
    /\ session_pc["get_or_create"] = "idle"
    /\ LET cached == {sid \in DOMAIN ACTIVE_CONVERSATIONS :
                        "device_id" \in DOMAIN ACTIVE_CONVERSATIONS[sid]}
       IN  IF cached = {}
           THEN /\ session_pc' = [session_pc EXCEPT !["get_or_create"] = "query_active"]
                /\ session_local' = session_local
           ELSE \E sid \in cached :
                    IF now - ACTIVE_CONVERSATIONS[sid].last_activity
                        > INACTIVITY_TIMEOUT_SECONDS
                    THEN /\ session_pc' = [session_pc EXCEPT
                                             !["get_or_create"] = "end_session"]
                         /\ session_local' = [session_local EXCEPT
                                                !["get_or_create"].session_id = sid]
                    ELSE /\ session_pc' = [session_pc EXCEPT !["get_or_create"] = "done"]
                         /\ session_local' = session_local
    /\ UNCHANGED <<stores, conversations, locals, logs, calls, now, ACTIVE_CONVERSATIONS,
                   conversation_docs, threads_started>>

\* get_or_create_session, steps 2 and 3: the active conversation of the toy is
\* read from the store and validated.
QueryActiveConversation ==
    /\ session_pc["get_or_create"] = "query_active"
    /\ IF active_conversations = {}
       THEN /\ session_pc' = [session_pc EXCEPT !["get_or_create"] = "create_session"]
            /\ UNCHANGED <<session_local, ACTIVE_CONVERSATIONS>>
       ELSE \E conversation_id \in active_conversations :
            LET firestore_session == conversation_docs[conversation_id]
            IN  IF \/ firestore_session.startTime < SERVER_START_TIME
                   \/ now - firestore_session.lastActivityAt > INACTIVITY_TIMEOUT_SECONDS
                THEN /\ session_pc' = [session_pc EXCEPT !["get_or_create"] = "end_session"]
                     /\ session_local' = [session_local EXCEPT
                                            !["get_or_create"].session_id = conversation_id]
                     /\ UNCHANGED ACTIVE_CONVERSATIONS
                ELSE /\ ACTIVE_CONVERSATIONS' =
                            set(ACTIVE_CONVERSATIONS, conversation_id,
                                loaded_session_data(conversation_id, firestore_session))
                     /\ session_pc' = [session_pc EXCEPT !["get_or_create"] = "done"]
                     /\ UNCHANGED session_local
    /\ UNCHANGED <<stores, conversations, locals, logs, calls, now, conversation_docs,
                   threads_started>>

\* get_or_create_session, step 4: _create_new_session.
CreateNewSession ==
    /\ session_pc["get_or_create"] = "create_session"
    /\ LET conversation_id == Cardinality(DOMAIN conversation_docs) + 1
       IN  /\ conversation_docs' = set(conversation_docs, conversation_id,
                                       new_conversation(now))
           /\ ACTIVE_CONVERSATIONS' = set(ACTIVE_CONVERSATIONS, conversation_id,
                                          new_session_data(conversation_id, now))
    /\ session_pc' = [session_pc EXCEPT !["get_or_create"] = "done"]
    /\ UNCHANGED <<stores, conversations, locals, logs, calls, now, session_local,
                   threads_started>>

\* cleanup_expired_sessions: the scan of the cache, under the lock.
CleanupScan ==
    /\ session_pc["cleanup"] = "idle"
    /\ session_local' = [session_local EXCEPT !["cleanup"].expired_sessions =
            listed_numbers({sid \in DOMAIN ACTIVE_CONVERSATIONS : is_session_expired(sid)})]
    /\ session_pc' = [session_pc EXCEPT !["cleanup"] = "cleanup_next"]
    /\ UNCHANGED <<stores, conversations, locals, logs, calls, now, ACTIVE_CONVERSATIONS,
                   conversation_docs, threads_started>>

\* cleanup_expired_sessions: `for session_id, user_id in expired_sessions`,
\* then cleanup_firestore_orphans, whose end_session calls find no session_data
\* and change nothing.
CleanupNext ==
    /\ session_pc["cleanup"] = "cleanup_next"
    /\ IF session_local["cleanup"].expired_sessions = <<>>
       THEN /\ session_pc' = [session_pc EXCEPT !["cleanup"] = "done"]
            /\ session_local' = session_local
       ELSE /\ session_pc' = [session_pc EXCEPT !["cleanup"] = "end_session"]
            /\ session_local' = [session_local EXCEPT
                    !["cleanup"].session_id = Head(session_local["cleanup"].expired_sessions),
                    !["cleanup"].expired_sessions = Tail(@)]
    /\ UNCHANGED <<stores, conversations, locals, logs, calls, now, ACTIVE_CONVERSATIONS,
                   conversation_docs, threads_started>>

\* end_session: session_data = self.ACTIVE_CONVERSATIONS.get(session_id)
EndSessionRead(k) ==
    /\ session_pc[k] = "end_session"
    /\ LET session_id == session_local[k].session_id
       IN  IF session_id \in DOMAIN ACTIVE_CONVERSATIONS
           THEN /\ session_local' = [session_local EXCEPT
                        ![k].session_data = ACTIVE_CONVERSATIONS[session_id]]
                /\ session_pc' = [session_pc EXCEPT ![k] = "get_conversation"]
           ELSE /\ session_local' = session_local
                /\ session_pc' = [session_pc EXCEPT ![k] = after_end_session(k)]
    /\ UNCHANGED <<stores, conversations, locals, logs, calls, now, ACTIVE_CONVERSATIONS,
                   conversation_docs, threads_started>>

\* end_conversation: conv_doc = conversation_ref.get()
GetConversation(k) ==
    /\ session_pc[k] = "get_conversation"
    /\ LET conversation_id == session_local[k].session_data.conversation_id
       IN  IF conversation_id \in DOMAIN conversation_docs
           THEN /\ session_local' = [session_local EXCEPT
                        ![k].conv_data = conversation_docs[conversation_id]]
                /\ session_pc' = [session_pc EXCEPT ![k] = "update_conversation"]
           ELSE /\ session_local' = session_local
                /\ session_pc' = [session_pc EXCEPT ![k] = "delete_session"]
    /\ UNCHANGED <<stores, conversations, locals, logs, calls, now, ACTIVE_CONVERSATIONS,
                   conversation_docs, threads_started>>

\* A variant of UpdateConversation: the update leaves the status as it is.
UpdateConversation_keeps_status(k) ==
    /\ session_pc[k] = "update_conversation"
    /\ conversation_docs' =
        [conversation_docs EXCEPT ![session_local[k].session_data.conversation_id] =
            [@ EXCEPT !.messageCount = session_local[k].conv_data.messageCount]]
    /\ session_pc' = [session_pc EXCEPT ![k] = "start_threads"]
    /\ UNCHANGED <<stores, conversations, locals, logs, calls, now, ACTIVE_CONVERSATIONS,
                   session_local, threads_started>>

\* end_conversation: conversation_ref.update({"status": "ended", ...,
\* "messageCount": total_message_count})
UpdateConversation(k) ==
    /\ session_pc[k] = "update_conversation"
    /\ conversation_docs' =
        [conversation_docs EXCEPT ![session_local[k].session_data.conversation_id] =
            [@ EXCEPT !.status = "ended",
                      !.messageCount = session_local[k].conv_data.messageCount]]
    /\ session_pc' = [session_pc EXCEPT ![k] = "start_threads"]
    /\ UNCHANGED <<stores, conversations, locals, logs, calls, now, ACTIVE_CONVERSATIONS,
                   session_local, threads_started>>

\* end_conversation: the title thread is started, and the extraction thread
\* when the conversation has at least four messages.
StartThreads(k) ==
    /\ session_pc[k] = "start_threads"
    /\ LET conversation_id == session_local[k].session_data.conversation_id
           messages == session_local[k].conv_data.messages
           title == [target |-> "_generate_ai_title",
                     conversation_id |-> conversation_id, messages |-> messages]
           extraction == [target |-> "_extract_knowledge_graph",
                          conversation_id |-> conversation_id, messages |-> messages]
       IN  threads_started' =
            IF session_local[k].conv_data.messageCount >= MinMessagesForExtraction
            THEN threads_started \o <<title, extraction>>
            ELSE Append(threads_started, title)
    /\ session_pc' = [session_pc EXCEPT ![k] = "delete_session"]
    /\ UNCHANGED <<stores, conversations, locals, logs, calls, now, ACTIVE_CONVERSATIONS,
                   conversation_docs, session_local>>

\* end_session: `del self.ACTIVE_CONVERSATIONS[session_id]` under the lock; a
\* session that is no longer there raises KeyError.
DeleteSession(k) ==
    /\ session_pc[k] = "delete_session"
    /\ LET session_id == session_local[k].session_id
       IN  IF session_id \in DOMAIN ACTIVE_CONVERSATIONS
           THEN /\ ACTIVE_CONVERSATIONS' =
                    [sid \in DOMAIN ACTIVE_CONVERSATIONS \ {session_id} |->
                        ACTIVE_CONVERSATIONS[sid]]
                /\ session_pc' = [session_pc EXCEPT ![k] = after_end_session(k)]
           ELSE /\ ACTIVE_CONVERSATIONS' = ACTIVE_CONVERSATIONS
                /\ session_pc' = [session_pc EXCEPT ![k] = after_exception(k)]
    /\ UNCHANGED <<stores, conversations, locals, logs, calls, now, conversation_docs,
                   session_local, threads_started>>

\* What the LLM answers for the conversations of the sessions.
OutputsSession ==
    {Extracted(<<Item("topics", NameA, 9, <<"A">>)>>, <<>>)}

\* _extract_knowledge_graph in the next extraction thread that was started:
\* extract_and_store reads the child document and gets the LLM's answer.
ExtractKnowledgeGraph(r) ==
    /\ pc[r] = "idle"
    /\ \A q \in Threads : q < r => pc[q] # "idle"
    /\ conversations < Len(started("_extract_knowledge_graph"))
    /\ \E data \in OutputsSession :
        /\ extracted' = [extracted EXCEPT ![r] = data]
        /\ pc' = [pc EXCEPT ![r] = pc_at_entity(data, 1)]
    /\ conversations' = conversations + 1
    /\ conversation' = [conversation EXCEPT ![r] =
            started("_extract_knowledge_graph")[conversations + 1].conversation_id]
    /\ ei' = [ei EXCEPT ![r] = 1]
    /\ ri' = [ri EXCEPT ![r] = 1]
    /\ UNCHANGED <<calls, now, sessions, stores, logs, entities_map, snapshot>>

\* _extract_knowledge_graph in the next extraction thread that was started:
\* the child is missing, the first store read raises, the LLM call fails or
\* its answer is not JSON; extract_and_store returns or its exception is
\* logged.
ExtractKnowledgeGraphFails(r) ==
    /\ pc[r] = "idle"
    /\ \A q \in Threads : q < r => pc[q] # "idle"
    /\ conversations < Len(started("_extract_knowledge_graph"))
    /\ conversations' = conversations + 1
    /\ UNCHANGED <<calls, now, sessions, stores, logs, locals>>

\* One session is in memory, its conversation is active and has two or four
\* messages, the last of them at time 0; the timeout has passed or not.
InitSession ==
    /\ entities = <<>>
    /\ edges = <<>>
    /\ reads = <<>>
    /\ request = NoRequest
    /\ response = NoResponse
    /\ observations = <<>>
    /\ summary = <<>>
    /\ conversations = 0
    /\ pc = [r \in Threads |-> "idle"]
    /\ conversation = [r \in Threads |-> 0]
    /\ extracted = [r \in Threads |-> NoData]
    /\ ei = [r \in Threads |-> 0]
    /\ ri = [r \in Threads |-> 0]
    /\ entities_map = [r \in Threads |-> <<>>]
    /\ snapshot = [r \in Threads |-> NoSnapshot]
    /\ entity_log = <<>>
    /\ edge_log = <<>>
    /\ now \in {0, INACTIVITY_TIMEOUT_SECONDS + 1}
    /\ \E n \in {2, MinMessagesForExtraction} :
        conversation_docs = (1 :> [new_conversation(0) EXCEPT !.messageCount = n,
                                                              !.messages = Messages(n)])
    /\ ACTIVE_CONVERSATIONS = (1 :> [new_session_data(1, 0) EXCEPT !.message_count = 2])
    /\ session_pc = [k \in Callers |-> "idle"]
    /\ session_local = [k \in Callers |-> NoLocal]
    /\ threads_started = <<>>

NextSession ==
    \/ ExplicitEndRequest
    \/ GetOrCreateSession
    \/ QueryActiveConversation
    \/ CreateNewSession
    \/ CleanupScan
    \/ CleanupNext
    \/ \E k \in Callers :
        \/ EndSessionRead(k)
        \/ GetConversation(k)
        \/ UpdateConversation(k)
        \/ StartThreads(k)
        \/ DeleteSession(k)
    \/ \E r \in Threads :
        \/ ExtractKnowledgeGraph(r)
        \/ ExtractKnowledgeGraphFails(r)
        \/ GetEntity(r)
        \/ WriteEntity(r)
        \/ CreateObservation(r)
        \/ ReadEntities(r)
        \/ WriteSummary(r)

SpecSession ==
    InitSession /\ [][NextSession]_vars

\* The conversation IDs of the threads that a step starts with the given target.
newly_started(old, new, target) ==
    {new[i].conversation_id : i \in {j \in (Len(old) + 1)..Len(new) : new[j].target = target}}

\* A step of an extraction thread: one is begun, fails, or moves on.
ExtractionStep ==
    pc' # pc \/ conversations' # conversations

\* C28: a conversation ends regardless of extraction. Whenever end_conversation
\* starts the extraction thread of a conversation, the stored status of that
\* conversation is already "ended"; a conversation that is ended stays ended,
\* with the same stored messages, over every step; and a step of an extraction
\* thread, failing or not, writes nothing to any conversation document and
\* leaves every caller of end_conversation where it was.
C28_ConversationEndsRegardlessOfExtraction ==
    [][/\ \A c \in newly_started(threads_started, threads_started',
                                 "_extract_knowledge_graph") :
            /\ c \in DOMAIN conversation_docs
            /\ conversation_docs[c].status = "ended"
       /\ \A c \in DOMAIN conversation_docs :
            conversation_docs[c].status = "ended" =>
                /\ c \in DOMAIN conversation_docs'
                /\ conversation_docs'[c].status = "ended"
                /\ conversation_docs'[c].messages = conversation_docs[c].messages
       /\ ExtractionStep =>
            /\ conversation_docs' = conversation_docs
            /\ session_pc' = session_pc
            /\ ACTIVE_CONVERSATIONS' = ACTIVE_CONVERSATIONS]_vars

\* The explicit end request has returned normally, the conversation is ended
\* with its four messages, and the extraction that was started for it failed
\* and stored nothing.
C28_Witness ==
    /\ session_pc["explicit"] = "done"
    /\ conversation_docs[1].status = "ended"
    /\ conversation_docs[1].messages = Messages(MinMessagesForExtraction)
    /\ Len(started("_extract_knowledge_graph")) >= 1
    /\ conversations = Len(started("_extract_knowledge_graph"))
    /\ \A r \in Threads : pc[r] = "idle"
    /\ entities = <<>>
    /\ observations = <<>>

\* The conversations for which at least two threads were started with the
\* given target.
started_twice(target) ==
    {started(target)[i].conversation_id :
        i \in {j \in 1..Len(started(target)) :
                \E h \in 1..Len(started(target)) :
                    /\ h # j
                    /\ started(target)[h].conversation_id =
                       started(target)[j].conversation_id}}

\* C30: each conversation triggers at most one extraction run. In every
\* interleaving of the explicit end request, get_or_create_session and the
\* cleanup task, end_conversation gets as far as starting its threads at most
\* once for a conversation, the extraction thread is started at most once for
\* it, and no entity counts a conversation's single mention twice.
C30_AtMostOneExtractionPerConversation ==
    /\ started_twice("_generate_ai_title") = {}
    /\ started_twice("_extract_knowledge_graph") = {}
    /\ \A id \in DOMAIN entities : entities[id].mentionCount <= 1

=============================================================================
